---- MODULE Spec2Model ----
(***************************************************************************)
(* Model of the registry client of the oncology trials system             *)
(* (backend/data/scrapers/clinicaltrials.py): the ClinicalTrialsScraper    *)
(* with its session, its semaphore, the paginated searches and the detail  *)
(* fetch with the normalization of the registry's JSON payload.            *)
(***************************************************************************)
EXTENDS Integers, Sequences, FiniteSets, TLC

(***************************************************************************)
(* JSON / Python values.  Every value is a tagged record so that values of *)
(* different Python types can be compared.  A dict is a function from its  *)
(* keys (strings) to values; a key that is not in the dict is not in the   *)
(* DOMAIN.  Raised stands for "the evaluation raised an exception".        *)
(***************************************************************************)
Null == [t |-> "null"]
Raised == [t |-> "raise"]
BadJson == [t |-> "badjson"]
Str(s) == [t |-> "str", s |-> s]
Num(n) == [t |-> "num", n |-> n]
List(l) == [t |-> "list", l |-> l]
Obj(f) == [t |-> "obj", f |-> f]
EmptyObj == Obj(<<>>)
EmptyList == List(<<>>)

\* Python truth value of a value (bool(v)).
Truthy(v) ==
    CASE v.t = "null" -> FALSE
      [] v.t = "str" -> v.s # ""
      [] v.t = "num" -> v.n # 0
      [] v.t = "list" -> Len(v.l) > 0
      [] v.t = "obj" -> DOMAIN v.f # {}
      [] OTHER -> FALSE

\* Variant of Get: obj[key], a missing key raises KeyError.
Get_strict(obj, key, default) ==
    IF obj.t # "obj" THEN Raised
    ELSE IF key \in DOMAIN obj.f THEN obj.f[key] ELSE Raised

\* dict.get(key, default): only a dict has .get, anything else raises
\* AttributeError; a key that is present with value null yields null, not
\* the default.
Get(obj, key, default) ==
    IF obj.t # "obj" THEN Raised
    ELSE IF key \in DOMAIN obj.f THEN obj.f[key] ELSE default

\* The characters of the strings that the model's payloads use.
Chars(s) ==
    CASE s = "" -> <<>>
      [] s = "AB" -> <<"A", "B">>
      [] OTHER -> <<s>>

RECURSIVE SetToSeq(_)
SetToSeq(S) ==
    IF S = {} THEN <<>>
    ELSE LET x == CHOOSE y \in S : TRUE IN <<x>> \o SetToSeq(S \ {x})

\* "for x in v": the list of the values a for loop runs over, or Raised when
\* v is not iterable (None, a number).  A string iterates over its characters, a dict
\* over its keys (the model keeps no insertion order for keys).
Iter(v) ==
    CASE v.t = "list" -> v
      [] v.t = "str" -> List([i \in 1..Len(Chars(v.s)) |-> Str(Chars(v.s)[i])])
      [] v.t = "obj" -> LET ks == SetToSeq(DOMAIN v.f) IN List([i \in 1..Len(ks) |-> Str(ks[i])])
      [] OTHER -> Raised

\* v[0] for a truthy v: the first element of a list, the first character of
\* a string, KeyError for a dict, TypeError for a number.
Index0(v) ==
    CASE v.t = "list" -> v.l[1]
      [] v.t = "str" -> Str(Chars(v.s)[1])
      [] OTHER -> Raised

(***************************************************************************)
(* _parse_study_data: the normalization transform.                         *)
(***************************************************************************)
\* Variant of PhaseOf: the last element of the phases list.
PhaseOf_last(design) ==
    LET phase == Get(design, "phases", EmptyList) IN
    IF phase = Raised THEN Raised
    ELSE IF Truthy(phase) THEN (IF phase.t = "list" THEN phase.l[Len(phase.l)] ELSE phase)
    ELSE Null

\* design.get("phases", []) collapsed to its first element.
PhaseOf(design) ==
    LET phase == Get(design, "phases", EmptyList) IN
    IF phase = Raised THEN Raised
    ELSE IF Truthy(phase) THEN (IF phase.t = "list" THEN phase.l[1] ELSE phase)
    ELSE Null

\* Variant of ConditionsOf: "conditions_list or None", no conditions give None.
ConditionsOf_none(protocol_section) ==
    LET conditions == Get(Get(protocol_section, "conditionsModule", EmptyObj),
                          "conditions", EmptyList)
        it == IF conditions = Raised THEN Raised ELSE Iter(conditions)
    IN IF it = Raised THEN Raised
       ELSE IF Len(it.l) = 0 THEN Null
       ELSE List([i \in 1..Len(it.l) |-> Obj("name" :> it.l[i])])

\* [{"name": cond} for cond in conditions]
ConditionsOf(protocol_section) ==
    LET conditions == Get(Get(protocol_section, "conditionsModule", EmptyObj),
                          "conditions", EmptyList)
        it == IF conditions = Raised THEN Raised ELSE Iter(conditions)
    IN IF it = Raised THEN Raised
       ELSE List([i \in 1..Len(it.l) |-> Obj("name" :> it.l[i])])

\* Variant of InterventionsOf: entries without description are skipped.
InterventionsOf_described(protocol_section) ==
    LET arms_interventions == Get(protocol_section, "armsInterventionsModule", EmptyObj)
        lst == Get(arms_interventions, "interventions", EmptyList)
        it == IF lst = Raised THEN Raised ELSE Iter(lst)
    IN IF it = Raised THEN Raised
       ELSE IF \E i \in 1..Len(it.l) : it.l[i].t # "obj" THEN Raised
       ELSE LET kept == SelectSeq(it.l, LAMBDA e : "description" \in DOMAIN e.f) IN
            List([i \in 1..Len(kept) |->
                    Obj(("type" :> Get(kept[i], "type", Null))
                        @@ ("name" :> Get(kept[i], "name", Null))
                        @@ ("description" :> Get(kept[i], "description", Null)))])

\* interventions.append({"type": ..., "name": ..., "description": ...})
InterventionsOf(protocol_section) ==
    LET arms_interventions == Get(protocol_section, "armsInterventionsModule", EmptyObj)
        lst == Get(arms_interventions, "interventions", EmptyList)
        it == IF lst = Raised THEN Raised ELSE Iter(lst)
    IN IF it = Raised THEN Raised
       ELSE IF \E i \in 1..Len(it.l) : it.l[i].t # "obj" THEN Raised
       ELSE List([i \in 1..Len(it.l) |->
                    Obj(("type" :> Get(it.l[i], "type", Null))
                        @@ ("name" :> Get(it.l[i], "name", Null))
                        @@ ("description" :> Get(it.l[i], "description", Null)))])

\* sponsors["leadSponsor"].get("name") when leadSponsor is truthy.
SponsorOf(protocol_section) ==
    LET sponsors == Get(protocol_section, "sponsorsCollaboratorsModule", EmptyObj)
        lead == Get(sponsors, "leadSponsor", Null)
    IN IF lead = Raised THEN Raised
       ELSE IF Truthy(lead) THEN Get(lead, "name", Null)
       ELSE Null

\* Variant of EndpointOf: the first description found in the list.
EndpointOf_described(outcomes, key) ==
    LET lst == Get(outcomes, key, EmptyList) IN
    IF lst = Raised THEN Raised
    ELSE IF Truthy(lst) /\ lst.t = "list"
         THEN LET with == SelectSeq(lst.l, LAMBDA e : e.t = "obj" /\ "description" \in DOMAIN e.f)
              IN IF with = <<>> THEN Get(Index0(lst), "description", Null)
                 ELSE with[1].f["description"]
    ELSE IF Truthy(lst) THEN Get(Index0(lst), "description", Null)
    ELSE Null

\* outcomes.get(key, []) collapsed to the description of its first entry.
EndpointOf(outcomes, key) ==
    LET lst == Get(outcomes, key, EmptyList) IN
    IF lst = Raised THEN Raised
    ELSE IF Truthy(lst) THEN Get(Index0(lst), "description", Null)
    ELSE Null

parse_study_data(data) ==
    LET protocol_section == Get(data, "protocolSection", EmptyObj)
        identification == Get(protocol_section, "identificationModule", EmptyObj)
        status == Get(protocol_section, "statusModule", EmptyObj)
        design == Get(protocol_section, "designModule", EmptyObj)
        description == Get(protocol_section, "descriptionModule", EmptyObj)
        outcomes == Get(protocol_section, "outcomesModule", EmptyObj)
        rec == [nct_id |-> Get(identification, "nctId", Str("")),
                official_title |-> Get(identification, "officialTitle", Str("")),
                brief_title |-> Get(identification, "briefTitle", Null),
                acronym |-> Get(identification, "acronym", Null),
                study_type |-> Get(design, "studyType", Null),
                phase |-> PhaseOf(design),
                status |-> Get(status, "overallStatus", Null),
                start_date |-> Get(Get(status, "startDateStruct", EmptyObj), "date", Null),
                completion_date |-> Get(Get(status, "completionDateStruct", EmptyObj), "date", Null),
                enrollment |-> Get(Get(design, "enrollmentInfo", EmptyObj), "count", Null),
                sponsor_name |-> SponsorOf(protocol_section),
                brief_summary |-> Get(description, "briefSummary", Null),
                detailed_description |-> Get(description, "detailedDescription", Null),
                primary_endpoint |-> EndpointOf(outcomes, "primaryOutcomes"),
                secondary_endpoint |-> EndpointOf(outcomes, "secondaryOutcomes"),
                conditions |-> ConditionsOf(protocol_section),
                interventions |-> InterventionsOf(protocol_section),
                eligibility |-> Null,
                contacts |-> Null,
                locations |-> Null,
                publications |-> Null]
    IN IF \E k \in DOMAIN rec : rec[k] = Raised THEN Raised
       ELSE [t |-> "StudyData"] @@ rec

(***************************************************************************)
(* Bounds of the model and constants of the program.                       *)
(***************************************************************************)
MaxPages == 2
MaxPageLen == 2
MaxLimit == 3
MaxDeviations == 2
MaxDepth == 2
MaxRows == 2
MaxPage == 2
MaxSize == 2
NumTasks == 11
SemaphoreValue == 10
MaxPageSize == 1000
HttpOk == 200

Min(a, b) == IF a < b THEN a ELSE b
\* Python's seq[:n] for n >= 0.
Take(s, n) == SubSeq(s, 1, Min(n, Len(s)))

RECURSIVE SeqsUpTo(_, _)
SeqsUpTo(S, n) ==
    IF n = 0 THEN {<<>>}
    ELSE LET shorter == SeqsUpTo(S, n - 1)
         IN shorter \cup {Append(s, x) : s \in {q \in shorter : Len(q) = n - 1}, x \in S}

(***************************************************************************)
(* The registry's responses.  A response is what one session.get(...)      *)
(* yields: exc = TRUE when the request raises (network error, timeout,     *)
(* session not usable), otherwise a status and a body; the body BadJson    *)
(* makes response.json() raise.                                            *)
(***************************************************************************)
Absent == [t |-> "absent"]
Response(status, body) == [exc |-> FALSE, status |-> status, body |-> body]
ExcResponse == [exc |-> TRUE, status |-> 0, body |-> Null]

\* A dict with the keys of f whose value is not Absent.
MkObj(f) == Obj([k \in {x \in DOMAIN f : f[x] # Absent} |-> f[k]])

\* Search pages.  A study entry carries an nctId, or none (no
\* protocolSection, or an empty nctId), or is malformed (its protocolSection
\* is null, so reading it raises).
StudyEntry(id) ==
    Obj("protocolSection" :> Obj("identificationModule" :> Obj("nctId" :> Str(id))))
EntryNoId == EmptyObj
EntryBad == Obj("protocolSection" :> Null)
\* The lists of entries of a page: every list of up to MaxPageLen entries
\* with an identifier, and some lists with the other kinds of entry.
PageLists ==
    SeqsUpTo({StudyEntry("NCT1"), StudyEntry("NCT2")}, MaxPageLen)
    \cup { <<EntryNoId>>, <<StudyEntry("NCT1"), EntryNoId>>, <<StudyEntry("")>>,
           <<EntryNoId, StudyEntry("NCT2")>>,
           <<EntryBad>>, <<StudyEntry("NCT1"), EntryBad>>, <<EntryBad, StudyEntry("NCT2")>> }
SearchPage(entries, token) ==
    MkObj([studies |-> List(entries), nextPageToken |-> token])
\* A page has no nextPageToken or the token "t1"; one page has the token
\* "t2", one the empty token, one a null token and one no list of studies.
SearchResponses ==
    {Response(HttpOk, SearchPage(es, tok)) : es \in PageLists, tok \in {Absent, Str("t1")}}
    \cup {Response(HttpOk, SearchPage(<<StudyEntry("NCT2")>>, Str("t2"))),
          Response(HttpOk, SearchPage(<<StudyEntry("NCT1")>>, Str(""))),
          Response(HttpOk, SearchPage(<<StudyEntry("NCT2")>>, Null)),
          Response(HttpOk, Obj("nextPageToken" :> Str("t1"))),
          Response(HttpOk, BadJson), Response(500, Null), ExcResponse}

\* Detail payloads: the full document and, per section, the variants that
\* deviate from it (section missing, null, or with an inner deviation).
Sections ==
    {"identificationModule", "statusModule", "designModule", "descriptionModule",
     "conditionsModule", "armsInterventionsModule", "sponsorsCollaboratorsModule",
     "outcomesModule"}
FullSection(m) ==
    CASE m = "identificationModule" ->
            Obj([nctId |-> Str("NCT00000001"), officialTitle |-> Str("Official"),
                 briefTitle |-> Str("Brief"), acronym |-> Str("ACR")])
      [] m = "statusModule" ->
            Obj([overallStatus |-> Str("COMPLETED"),
                 startDateStruct |-> Obj([date |-> Str("2020-01")]),
                 completionDateStruct |-> Obj([date |-> Str("2022-03-15")])])
      [] m = "designModule" ->
            Obj([studyType |-> Str("INTERVENTIONAL"),
                 phases |-> List(<<Str("PHASE2"), Str("PHASE3")>>),
                 enrollmentInfo |-> Obj([count |-> Num(40)])])
      [] m = "descriptionModule" ->
            Obj([briefSummary |-> Str("Summary"), detailedDescription |-> Str("Details")])
      [] m = "conditionsModule" ->
            Obj([conditions |-> List(<<Str("B"), Str("A")>>)])
      [] m = "armsInterventionsModule" ->
            Obj([interventions |-> List(<<
                    Obj([type |-> Str("DRUG"), name |-> Str("X"), description |-> Str("dx")]),
                    Obj([type |-> Str("DEVICE"), name |-> Str("Y")])>>)])
      [] m = "sponsorsCollaboratorsModule" ->
            Obj([leadSponsor |-> Obj([name |-> Str("Acme")])])
      [] m = "outcomesModule" ->
            Obj([primaryOutcomes |-> List(<<Obj([description |-> Str("P1")]),
                                            Obj([description |-> Str("P2")])>>),
                 secondaryOutcomes |-> List(<<Obj([description |-> Str("S1")])>>)])
\* Variants that follow the registry's schema: every value has its type.
SchemaVariants(m) ==
    CASE m = "identificationModule" ->
            {Absent, Obj([officialTitle |-> Str("Official"), briefTitle |-> Str("Brief")])}
      [] m = "designModule" ->
            {Absent, Obj([studyType |-> Str("OBSERVATIONAL"), phases |-> EmptyList]),
             Obj([studyType |-> Str("EXPANDED_ACCESS")])}
      [] m = "conditionsModule" -> {Absent, EmptyObj}
      [] m = "outcomesModule" ->
            {Absent, Obj([primaryOutcomes |-> List(<<EmptyObj, Obj([description |-> Str("P2")])>>),
                          secondaryOutcomes |-> EmptyList])}
      [] OTHER -> {Absent}
\* Variants in which a value has an unexpected type.
OffSchemaVariants(m) ==
    CASE m = "statusModule" ->
            {Null, Obj([overallStatus |-> Str("COMPLETED"), startDateStruct |-> Null])}
      [] m = "conditionsModule" ->
            {Null, Obj([conditions |-> Null]), Obj([conditions |-> Str("AB")])}
      [] m = "armsInterventionsModule" -> {Null, Obj([interventions |-> List(<<Null>>)])}
      [] m = "sponsorsCollaboratorsModule" ->
            {Null, Obj([leadSponsor |-> Null]), Obj([leadSponsor |-> Str("Acme")])}
      [] m = "outcomesModule" -> {Null, Obj([primaryOutcomes |-> List(<<Null>>)])}
      [] OTHER -> {Null}
Variants(m) == SchemaVariants(m) \cup OffSchemaVariants(m)

\* The payload in which each section m has the value c[m] (Absent: no key).
PayloadOf(c) == Obj("protocolSection" :> MkObj(c))
\* The variants of the section m to choose from.
VariantsFor(m, onlySchema) == IF onlySchema THEN SchemaVariants(m) ELSE Variants(m)
\* The choices that deviate from the full document in the sections D only.
ChoicesOn(D, onlySchema) ==
    {[m \in Sections |-> IF m \in D THEN d[m] ELSE FullSection(m)] :
        d \in {e \in [D -> UNION {VariantsFor(m, onlySchema) : m \in D}] :
                    \A m \in D : e[m] \in VariantsFor(m, onlySchema)}}
PayloadsWith(onlySchema) ==
    {PayloadOf(c) : c \in UNION {ChoicesOn(D, onlySchema) :
                        D \in {E \in SUBSET Sections : Cardinality(E) <= MaxDeviations}}}
SchemaPayloads == PayloadsWith(TRUE)
DetailPayloads ==
    PayloadsWith(FALSE)
    \cup {EmptyObj, Obj("protocolSection" :> Null), EmptyList, Null}
DetailResponses ==
    {Response(HttpOk, p) : p \in DetailPayloads}
    \cup {Response(HttpOk, BadJson), Response(404, Null), ExcResponse}

(***************************************************************************)
(* State of one ClinicalTrialsScraper and of the calls made on it.         *)
(***************************************************************************)
VARIABLES
    session,          \* self.session: "none" (None), "open" or "closed"
    semaphore,        \* free permits of self.semaphore
    pc,               \* per task: "idle", "loop", "inflight" or "done"
    op,               \* per task: the method the task is running
    limit,            \* per task: the limit argument of a search
    nct_id,           \* per task: the nct_id argument of get_study_detail
    nct_ids,          \* per task: the local list nct_ids
    next_page_token,  \* per task: the local next_page_token
    params,           \* per task: the request parameters (params dict)
    sent,             \* per task: the requests handed to the transport
    fetched,          \* per task: the outcomes of the call's session.get
    result,           \* per task: the value returned (Raised: it raised)
    criteria,         \* per task: the filter arguments of a search
    depth,            \* "async with" scopes of the scraper entered, not yet exited
    open_sessions,    \* ClientSessions the scraper created and has not closed
    last              \* the call made before the current one, with its outcome

\* The state of the web backend: the tables of the database the CRUD classes
\* work on, the clock, and what its clients hold and have asked for.
VARIABLES
    users,            \* table users: id -> row
    studies_table,    \* table studies: id -> row
    conditions,       \* table conditions: id -> row
    user_sessions,    \* table user_sessions: a set of rows
    user_favorites,   \* table user_favorites: (user_id, study_id) -> number of rows
    user_history,     \* table user_history: (user_id, study_id) -> number of rows
    user_feedback,    \* table user_feedback: the rows in the order of insertion
    now,              \* datetime.now(), in minutes
    access_tokens,    \* the TokenResponses login has returned, each with its session
    calls             \* per request: the call it is running, or ran last, and its result

scraper == <<session, semaphore, pc, op, limit, nct_id, nct_ids, next_page_token,
             params, sent, fetched, result, criteria, depth, open_sessions, last>>

backend == <<users, studies_table, conditions, user_sessions, user_favorites,
             user_history, user_feedback, now, access_tokens, calls>>

vars == <<scraper, backend>>

Pending == [t |-> "pending"]
NoParams == [kind |-> "none", filters |-> <<>>, pageSize |-> 0, pageToken |-> Absent]
\* The filter arguments of search_studies at their defaults; the list
\* filters (conditions, interventions, sponsor, phase, status, study_type)
\* stay at None in every call of the model.
NoCriteria == [query |-> "", start_date_from |-> Null, start_date_to |-> Null]
NoCall == [op |-> "none"]

\* ---------------------------------------------------------------------
\* The web backend (src/backend/app): its data.
\* ---------------------------------------------------------------------

\* get_password_hash: the bcrypt hash of a password is a value of its own,
\* never the password.
get_password_hash(password) == [scheme |-> "bcrypt", of |-> password]

\* verify_password: whether the hash is one of this password.
verify_password(plain_password, hashed_password) ==
    hashed_password = get_password_hash(plain_password)

PASSWORD_MIN_LENGTH == 8

\* validate_password: long enough, with a digit and with a letter.  A
\* password is the sequence of its characters.
validate_password(password) ==
    LET isdigit(c) == c \in {"0", "1", "2", "3", "4", "5", "6", "7", "8", "9"}
        isalpha(c) == c \in {"a", "b", "c", "d", "e", "p", "s", "w"}
    IN  /\ Len(password) >= PASSWORD_MIN_LENGTH
        /\ \E i \in 1..Len(password) : isdigit(password[i])
        /\ \E i \in 1..Len(password) : isalpha(password[i])

\* The passwords the model's clients type: the one every account starts
\* with, a strong new one, one too short and one without a digit.
InitialPassword == <<"p", "a", "s", "s", "1", "2", "3", "4">>

StrongPassword == <<"a", "b", "c", "d", "e", "5", "6", "7">>

Passwords == {InitialPassword, StrongPassword, <<"a", "1">>,
              <<"p", "a", "s", "s", "w", "a", "s", "s">>}

\* The rows the model's database starts with.  A row carries its primary
\* key; every User and Study row has is_active (default True), a Condition
\* row has no such column.
UserIds == {"u1", "u2"}

StudyIds == {"s1", "s2", "s3"}

ConditionIds == {"c1", "c2"}

UserRow(id) ==
    [id |-> id, username |-> id, is_active |-> TRUE,
     password_hash |-> get_password_hash(InitialPassword), full_name |-> "old",
     last_login |-> Null]

\* A text column is the set of the words it contains.
StudyRow(id) ==
    [id |-> id, is_active |-> TRUE,
     official_title |-> IF id = "s3" THEN {"lung"} ELSE {"lung", "cancer"},
     phase |-> IF id = "s1" THEN "PHASE1" ELSE "PHASE2"]

ConditionRow(id) == [id |-> id, name |-> "cancer"]

Pairs == UserIds \X StudyIds

\* A request that has made no call yet.
NoRequest == [op |-> "none", pc |-> "done", args |-> <<>>, result |-> Null]

\* The database after the migrations and the loading of the first rows,
\* with nobody logged in, for the requests R.
InitBackend(R) ==
    /\ users = [id \in UserIds |-> UserRow(id)]
    /\ studies_table = [id \in StudyIds |-> StudyRow(id)]
    /\ conditions = [id \in ConditionIds |-> ConditionRow(id)]
    /\ user_sessions = {}
    /\ user_favorites = [p \in Pairs |-> 0]
    /\ user_history = [p \in Pairs |-> 0]
    /\ user_feedback = <<>>
    /\ now = 0
    /\ access_tokens = {}
    /\ calls = [r \in R |-> NoRequest]

InitTasks(T) ==
    /\ semaphore = SemaphoreValue
    /\ pc = [t \in T |-> "idle"]
    /\ op = [t \in T |-> "none"]
    /\ limit = [t \in T |-> 0]
    /\ nct_id = [t \in T |-> ""]
    /\ nct_ids = [t \in T |-> <<>>]
    /\ next_page_token = [t \in T |-> Null]
    /\ params = [t \in T |-> NoParams]
    /\ sent = [t \in T |-> <<>>]
    /\ fetched = [t \in T |-> <<>>]
    /\ result = [t \in T |-> Pending]
    /\ criteria = [t \in T |-> NoCriteria]
    /\ depth = 0
    /\ open_sessions = 0
    /\ last = NoCall

\* ClinicalTrialsScraper(): no session yet, all permits free.
Init == session = "none" /\ InitTasks({1}) /\ InitBackend({1})

Tasks == DOMAIN pc

\* __aenter__: a new ClientSession is created and replaces self.session;
\* the session self.session referred to before is not touched.
aenter ==
    /\ session' = "open"
    /\ open_sessions' = open_sessions + 1
    /\ depth' = depth + 1
    /\ UNCHANGED <<semaphore, pc, op, limit, nct_id, nct_ids, next_page_token,
                   params, sent, fetched, result, criteria, last, backend>>

\* __aexit__, called when a scope entered with __aenter__ is left, by a
\* normal exit or by an exception (the arguments are not looked at):
\* closes self.session if there is one; closing a closed session does
\* nothing.
aexit ==
    /\ depth > 0
    /\ depth' = depth - 1
    /\ IF session = "open"
       THEN session' = "closed" /\ open_sessions' = open_sessions - 1
       ELSE UNCHANGED <<session, open_sessions>>
    /\ UNCHANGED <<semaphore, pc, op, limit, nct_id, nct_ids, next_page_token,
                   params, sent, fetched, result, criteria, last, backend>>

\* Variant of CanAcquire: the permit count is not looked at.
CanAcquire_always(sem) == TRUE

\* "async with self.semaphore": a permit can be taken when one is free.
CanAcquire(sem) == sem > 0
Acquire(sem) == sem - 1
\* Variant of Release: leaving "async with self.semaphore" frees no permit.
Release_none(sem) == sem
Release(sem) == sem + 1

(***************************************************************************)
(* search_studies                                                          *)
(***************************************************************************)
\* params = {..., "pageSize": min(limit, 1000), "format": "json"}
\* start_date_from and start_date_to are not put into params.
SearchParams(c, lim) ==
    [kind |-> "search",
     filters |-> ("query.cond" :> Str(c.query)) @@ ("query.titles" :> Str(c.query)),
     pageSize |-> Min(lim, MaxPageSize), pageToken |-> Absent]

\* while len(nct_ids) < limit
SearchLoopTest(ids, lim) == Len(ids) < lim

\* Variant of WithPageToken: the token is not put into params.
WithPageToken_never(ps, token) == ps

\* if next_page_token: params["pageToken"] = next_page_token
WithPageToken(ps, token) ==
    IF Truthy(token) THEN [ps EXCEPT !.pageToken = token] ELSE ps

\* Variant of SearchReturn: "return nct_ids", no truncation.
SearchReturn_untruncated(ids, lim) == List(ids)

\* return nct_ids[:limit]
SearchReturn(ids, lim) == List(Take(ids, lim))

\* study.get("protocolSection", {}).get("identificationModule", {}).get("nctId")
StudyNctId(study) ==
    Get(Get(Get(study, "protocolSection", EmptyObj), "identificationModule", EmptyObj),
        "nctId", Null)

\* Variant of ExtractIds: nct_ids.insert(0, nct_id) instead of append.
RECURSIVE ExtractIds_prepend(_, _, _)
ExtractIds_prepend(ids, studies, i) ==
    IF i > Len(studies) THEN [nct_ids |-> ids, raised |-> FALSE]
    ELSE LET id == StudyNctId(studies[i]) IN
         IF id = Raised THEN [nct_ids |-> ids, raised |-> TRUE]
         ELSE IF Truthy(id) THEN ExtractIds_prepend(<<id>> \o ids, studies, i + 1)
         ELSE ExtractIds_prepend(ids, studies, i + 1)

\* Variant of ExtractIds: the identifiers of a page go to a list of their
\* own and are added only when the whole page has been read.
RECURSIVE ExtractIds_atomic(_, _, _)
ExtractIds_atomic(ids, studies, i) ==
    IF i = 1 /\ \E j \in 1..Len(studies) : StudyNctId(studies[j]) = Raised
    THEN [nct_ids |-> ids, raised |-> TRUE]
    ELSE IF i > Len(studies) THEN [nct_ids |-> ids, raised |-> FALSE]
    ELSE LET id == StudyNctId(studies[i]) IN
         IF Truthy(id) THEN ExtractIds_atomic(Append(ids, id), studies, i + 1)
         ELSE ExtractIds_atomic(ids, studies, i + 1)

\* Variant of ExtractIds: no "if nct_id", every value found is appended.
RECURSIVE ExtractIds_unfiltered(_, _, _)
ExtractIds_unfiltered(ids, studies, i) ==
    IF i > Len(studies) THEN [nct_ids |-> ids, raised |-> FALSE]
    ELSE LET id == StudyNctId(studies[i]) IN
         IF id = Raised THEN [nct_ids |-> ids, raised |-> TRUE]
         ELSE ExtractIds_unfiltered(Append(ids, id), studies, i + 1)

\* The for loop over data.get("studies", []): the list after the loop and
\* whether the loop raised; identifiers appended before the entry that
\* raises stay in the list.
RECURSIVE ExtractIds(_, _, _)
ExtractIds(ids, studies, i) ==
    IF i > Len(studies) THEN [nct_ids |-> ids, raised |-> FALSE]
    ELSE LET id == StudyNctId(studies[i]) IN
         IF id = Raised THEN [nct_ids |-> ids, raised |-> TRUE]
         ELSE IF Truthy(id) THEN ExtractIds(Append(ids, id), studies, i + 1)
         ELSE ExtractIds(ids, studies, i + 1)

\* Variant of SearchStatusError: the accumulated identifiers are dropped.
SearchStatusError_drop(ids, token) ==
    [nct_ids |-> <<>>, token |-> token, brk |-> TRUE, raised |-> FALSE]

\* else: logger.error(...); break
SearchStatusError(ids, token) ==
    [nct_ids |-> ids, token |-> token, brk |-> TRUE, raised |-> FALSE]

\* Variant of SearchException: "continue" instead of "break", the page is
\* asked for again.
SearchException_continue(ids, token) ==
    [nct_ids |-> ids, token |-> token, brk |-> FALSE, raised |-> FALSE]

\* Variant of SearchException: no except clause, the exception leaves the
\* method.
SearchException_raise(ids, token) ==
    [nct_ids |-> ids, token |-> token, brk |-> TRUE, raised |-> TRUE]

\* except Exception as e: logger.error(...); break
SearchException(ids, token) ==
    [nct_ids |-> ids, token |-> token, brk |-> TRUE, raised |-> FALSE]

\* Variant of SearchNoMorePages: break after every page.
SearchNoMorePages_always(token) == TRUE

\* if not next_page_token: break
SearchNoMorePages(token) == ~Truthy(token)

\* The body of "async with self.session.get(...) as response" with its
\* except clause, for the response r: the new nct_ids and next_page_token,
\* whether the loop is left, whether the exception leaves the method.
SearchProcess(ids, token, r) ==
    IF r.exc THEN SearchException(ids, token)
    ELSE IF r.status = HttpOk THEN
        IF r.body = BadJson THEN SearchException(ids, token)
        ELSE LET data == r.body
                 studies == Get(data, "studies", EmptyList)
                 it == IF studies = Raised THEN Raised ELSE Iter(studies)
             IN IF it = Raised THEN SearchException(ids, token)
                ELSE LET ex == ExtractIds(ids, it.l, 1)
                         tok == Get(data, "nextPageToken", Null)
                     IN IF ex.raised THEN SearchException(ex.nct_ids, token)
                        ELSE [nct_ids |-> ex.nct_ids, token |-> tok,
                              brk |-> SearchNoMorePages(tok), raised |-> FALSE]
    ELSE SearchStatusError(ids, token)

search_studies(t, c, lim) ==
    /\ pc[t] = "idle"
    /\ criteria' = [criteria EXCEPT ![t] = c]
    /\ pc' = [pc EXCEPT ![t] = "loop"]
    /\ op' = [op EXCEPT ![t] = "search_studies"]
    /\ limit' = [limit EXCEPT ![t] = lim]
    /\ nct_ids' = [nct_ids EXCEPT ![t] = <<>>]
    /\ next_page_token' = [next_page_token EXCEPT ![t] = Null]
    /\ params' = [params EXCEPT ![t] = SearchParams(c, lim)]
    /\ sent' = [sent EXCEPT ![t] = <<>>]
    /\ fetched' = [fetched EXCEPT ![t] = <<>>]
    /\ result' = [result EXCEPT ![t] = Pending]
    /\ UNCHANGED <<session, semaphore, nct_id>>
    /\ UNCHANGED <<depth, open_sessions, last, backend>>

\* The loop test fails: return nct_ids[:limit].
search_exit(t) ==
    /\ pc[t] = "loop" /\ op[t] = "search_studies"
    /\ ~SearchLoopTest(nct_ids[t], limit[t])
    /\ pc' = [pc EXCEPT ![t] = "done"]
    /\ result' = [result EXCEPT ![t] = SearchReturn(nct_ids[t], limit[t])]
    /\ UNCHANGED <<session, semaphore, op, limit, nct_id, nct_ids, next_page_token,
                   params, sent, fetched>>
    /\ UNCHANGED <<criteria, depth, open_sessions, last, backend>>

\* One more iteration: set the page token, take a permit, issue the request.
\* Without a usable session self.session.get raises at once, the permit is
\* given back and the except clause runs.  The model follows a call for at
\* most MaxPages requests.
search_request(t) ==
    /\ pc[t] = "loop" /\ op[t] = "search_studies"
    /\ SearchLoopTest(nct_ids[t], limit[t])
    /\ Len(fetched[t]) < MaxPages
    /\ CanAcquire(semaphore)
    /\ params' = [params EXCEPT ![t] = WithPageToken(params[t], next_page_token[t])]
    /\ IF session = "open"
       THEN /\ semaphore' = Acquire(semaphore)
            /\ sent' = [sent EXCEPT ![t] = Append(@, params'[t])]
            /\ pc' = [pc EXCEPT ![t] = "inflight"]
            /\ UNCHANGED <<fetched, nct_ids, next_page_token, result>>
       ELSE LET out == SearchProcess(nct_ids[t], next_page_token[t], ExcResponse) IN
            /\ semaphore' = Release(Acquire(semaphore))
            /\ fetched' = [fetched EXCEPT ![t] = Append(@, ExcResponse)]
            /\ nct_ids' = [nct_ids EXCEPT ![t] = out.nct_ids]
            /\ next_page_token' = [next_page_token EXCEPT ![t] = out.token]
            /\ pc' = [pc EXCEPT ![t] = IF out.brk THEN "done" ELSE "loop"]
            /\ result' = [result EXCEPT ![t] =
                            IF out.raised THEN Raised
                            ELSE IF out.brk THEN SearchReturn(out.nct_ids, limit[t])
                            ELSE @]
            /\ UNCHANGED sent
    /\ UNCHANGED <<session, op, limit, nct_id>>
    /\ UNCHANGED <<criteria, depth, open_sessions, last, backend>>

\* Variant of search_response: nct_ids is an attribute of the scraper, the
\* identifiers of a page go to the list of every call that is running.
search_response_shared(t, r) ==
    /\ pc[t] = "inflight" /\ op[t] = "search_studies"
    /\ LET out == SearchProcess(nct_ids[t], next_page_token[t], r) IN
       /\ semaphore' = Release(semaphore)
       /\ fetched' = [fetched EXCEPT ![t] = Append(@, r)]
       /\ nct_ids' = [u \in Tasks |->
                        IF u = t \/ pc[u] \in {"loop", "inflight"}
                        THEN out.nct_ids ELSE nct_ids[u]]
       /\ next_page_token' = [next_page_token EXCEPT ![t] = out.token]
       /\ pc' = [pc EXCEPT ![t] = IF out.brk THEN "done" ELSE "loop"]
       /\ result' = [result EXCEPT ![t] =
                       IF out.raised THEN Raised
                       ELSE IF out.brk THEN SearchReturn(out.nct_ids, limit[t])
                       ELSE @]
    /\ UNCHANGED <<session, op, limit, nct_id, params, sent>>
    /\ UNCHANGED <<criteria, depth, open_sessions, last, backend>>

\* The response r arrives: the permit is released, the page is processed,
\* and the loop either goes on or is left with return nct_ids[:limit].
search_response(t, r) ==
    /\ pc[t] = "inflight" /\ op[t] = "search_studies"
    /\ LET out == SearchProcess(nct_ids[t], next_page_token[t], r) IN
       /\ semaphore' = Release(semaphore)
       /\ fetched' = [fetched EXCEPT ![t] = Append(@, r)]
       /\ nct_ids' = [nct_ids EXCEPT ![t] = out.nct_ids]
       /\ next_page_token' = [next_page_token EXCEPT ![t] = out.token]
       /\ pc' = [pc EXCEPT ![t] = IF out.brk THEN "done" ELSE "loop"]
       /\ result' = [result EXCEPT ![t] =
                       IF out.raised THEN Raised
                       ELSE IF out.brk THEN SearchReturn(out.nct_ids, limit[t])
                       ELSE @]
    /\ UNCHANGED <<session, op, limit, nct_id, params, sent>>
    /\ UNCHANGED <<criteria, depth, open_sessions, last, backend>>

(***************************************************************************)
(* get_study_detail                                                        *)
(***************************************************************************)
\* else: logger.warning(...); return None
DetailStatusError == Null

\* Variant of DetailException: no except clause, the exception leaves the method.
DetailException_raise == Raised

\* except Exception as e: logger.error(...); return None
DetailException == Null

\* The body of the try block for the response r, with its except clause.
DetailProcess(r) ==
    IF r.exc THEN DetailException
    ELSE IF r.status = HttpOk THEN
        IF r.body = BadJson THEN DetailException
        ELSE LET rec == parse_study_data(r.body) IN
             IF rec = Raised THEN DetailException ELSE rec
    ELSE DetailStatusError

DetailRequest(id) == [kind |-> "detail", nct_id |-> id]

get_study_detail(t, id) ==
    /\ pc[t] = "idle"
    /\ pc' = [pc EXCEPT ![t] = "loop"]
    /\ op' = [op EXCEPT ![t] = "get_study_detail"]
    /\ nct_id' = [nct_id EXCEPT ![t] = id]
    /\ sent' = [sent EXCEPT ![t] = <<>>]
    /\ fetched' = [fetched EXCEPT ![t] = <<>>]
    /\ result' = [result EXCEPT ![t] = Pending]
    /\ UNCHANGED <<session, semaphore, limit, nct_ids, next_page_token, params>>
    /\ UNCHANGED <<criteria, depth, open_sessions, last, backend>>

\* Variant of detail_request: a record returned by the previous call for
\* the same identifier is returned again without a request.
detail_request_cached(t) ==
    /\ pc[t] = "loop" /\ op[t] = "get_study_detail"
    /\ CanAcquire(semaphore)
    /\ IF last # NoCall /\ last.op = "get_study_detail" /\ last.nct_id = nct_id[t]
          /\ last.result # Null
       THEN /\ pc' = [pc EXCEPT ![t] = "done"]
            /\ result' = [result EXCEPT ![t] = last.result]
            /\ UNCHANGED <<semaphore, sent, fetched>>
       ELSE IF session = "open"
       THEN /\ semaphore' = Acquire(semaphore)
            /\ sent' = [sent EXCEPT ![t] = Append(@, DetailRequest(nct_id[t]))]
            /\ pc' = [pc EXCEPT ![t] = "inflight"]
            /\ UNCHANGED <<fetched, result>>
       ELSE /\ semaphore' = Release(Acquire(semaphore))
            /\ fetched' = [fetched EXCEPT ![t] = Append(@, ExcResponse)]
            /\ pc' = [pc EXCEPT ![t] = "done"]
            /\ result' = [result EXCEPT ![t] = DetailProcess(ExcResponse)]
            /\ UNCHANGED sent
    /\ UNCHANGED <<session, op, limit, nct_id, nct_ids, next_page_token, params>>
    /\ UNCHANGED <<criteria, depth, open_sessions, last, backend>>

\* Take a permit and issue the one request; without a usable session
\* self.session.get raises at once and the except clause returns None.
detail_request(t) ==
    /\ pc[t] = "loop" /\ op[t] = "get_study_detail"
    /\ CanAcquire(semaphore)
    /\ IF session = "open"
       THEN /\ semaphore' = Acquire(semaphore)
            /\ sent' = [sent EXCEPT ![t] = Append(@, DetailRequest(nct_id[t]))]
            /\ pc' = [pc EXCEPT ![t] = "inflight"]
            /\ UNCHANGED <<fetched, result>>
       ELSE /\ semaphore' = Release(Acquire(semaphore))
            /\ fetched' = [fetched EXCEPT ![t] = Append(@, ExcResponse)]
            /\ pc' = [pc EXCEPT ![t] = "done"]
            /\ result' = [result EXCEPT ![t] = DetailProcess(ExcResponse)]
            /\ UNCHANGED sent
    /\ UNCHANGED <<session, op, limit, nct_id, nct_ids, next_page_token, params>>
    /\ UNCHANGED <<criteria, depth, open_sessions, last, backend>>

\* Variant of detail_response: the permit is released on a 200 response
\* only.
detail_response_hold(t, r) ==
    /\ pc[t] = "inflight" /\ op[t] = "get_study_detail"
    /\ semaphore' = IF ~r.exc /\ r.status = HttpOk THEN Release(semaphore) ELSE semaphore
    /\ fetched' = [fetched EXCEPT ![t] = Append(@, r)]
    /\ pc' = [pc EXCEPT ![t] = "done"]
    /\ result' = [result EXCEPT ![t] = DetailProcess(r)]
    /\ UNCHANGED <<session, op, limit, nct_id, nct_ids, next_page_token, params, sent>>
    /\ UNCHANGED <<criteria, depth, open_sessions, last, backend>>

\* The response r arrives: the permit is released and the method returns.
detail_response(t, r) ==
    /\ pc[t] = "inflight" /\ op[t] = "get_study_detail"
    /\ semaphore' = Release(semaphore)
    /\ fetched' = [fetched EXCEPT ![t] = Append(@, r)]
    /\ pc' = [pc EXCEPT ![t] = "done"]
    /\ result' = [result EXCEPT ![t] = DetailProcess(r)]
    /\ UNCHANGED <<session, op, limit, nct_id, nct_ids, next_page_token, params, sent>>
    /\ UNCHANGED <<criteria, depth, open_sessions, last, backend>>

(***************************************************************************)
(* get_updated_studies                                                     *)
(***************************************************************************)
\* The last_update_date argument of the calls of the model.
LastUpdateDate == "2024-01-01"

\* params = {"query.lastUpdatePostDateStruct": ..., "pageSize": min(limit, 1000), ...}
UpdatedParams(lim) ==
    [kind |-> "updated",
     filters |-> ("query.lastUpdatePostDateStruct" :> Str(LastUpdateDate)),
     pageSize |-> Min(lim, MaxPageSize), pageToken |-> Absent]

\* Variant of UpdatedLoopTest: "while len(nct_ids) <= limit".
UpdatedLoopTest_inclusive(ids, lim) == Len(ids) <= lim

\* while len(nct_ids) < limit
UpdatedLoopTest(ids, lim) == Len(ids) < lim

\* return nct_ids[:limit]
UpdatedReturn(ids, lim) == List(Take(ids, lim))

RECURSIVE UpdatedExtractIds(_, _, _)
UpdatedExtractIds(ids, studies, i) ==
    IF i > Len(studies) THEN [nct_ids |-> ids, raised |-> FALSE]
    ELSE LET id == Get(Get(Get(studies[i], "protocolSection", EmptyObj),
                           "identificationModule", EmptyObj), "nctId", Null) IN
         IF id = Raised THEN [nct_ids |-> ids, raised |-> TRUE]
         ELSE IF Truthy(id) THEN UpdatedExtractIds(Append(ids, id), studies, i + 1)
         ELSE UpdatedExtractIds(ids, studies, i + 1)

\* else: logger.error(...); break
UpdatedStatusError(ids, token) ==
    [nct_ids |-> ids, token |-> token, brk |-> TRUE, raised |-> FALSE]

\* except Exception as e: logger.error(...); break
UpdatedException(ids, token) ==
    [nct_ids |-> ids, token |-> token, brk |-> TRUE, raised |-> FALSE]

UpdatedProcess(ids, token, r) ==
    IF r.exc THEN UpdatedException(ids, token)
    ELSE IF r.status = HttpOk THEN
        IF r.body = BadJson THEN UpdatedException(ids, token)
        ELSE LET data == r.body
                 studies == Get(data, "studies", EmptyList)
                 it == IF studies = Raised THEN Raised ELSE Iter(studies)
             IN IF it = Raised THEN UpdatedException(ids, token)
                ELSE LET ex == UpdatedExtractIds(ids, it.l, 1)
                         tok == Get(data, "nextPageToken", Null)
                     IN IF ex.raised THEN UpdatedException(ex.nct_ids, token)
                        ELSE [nct_ids |-> ex.nct_ids, token |-> tok,
                              brk |-> ~Truthy(tok), raised |-> FALSE]
    ELSE UpdatedStatusError(ids, token)

get_updated_studies(t, lim) ==
    /\ pc[t] = "idle"
    /\ pc' = [pc EXCEPT ![t] = "loop"]
    /\ op' = [op EXCEPT ![t] = "get_updated_studies"]
    /\ limit' = [limit EXCEPT ![t] = lim]
    /\ nct_ids' = [nct_ids EXCEPT ![t] = <<>>]
    /\ next_page_token' = [next_page_token EXCEPT ![t] = Null]
    /\ params' = [params EXCEPT ![t] = UpdatedParams(lim)]
    /\ sent' = [sent EXCEPT ![t] = <<>>]
    /\ fetched' = [fetched EXCEPT ![t] = <<>>]
    /\ result' = [result EXCEPT ![t] = Pending]
    /\ UNCHANGED <<session, semaphore, nct_id>>
    /\ UNCHANGED <<criteria, depth, open_sessions, last, backend>>

updated_exit(t) ==
    /\ pc[t] = "loop" /\ op[t] = "get_updated_studies"
    /\ ~UpdatedLoopTest(nct_ids[t], limit[t])
    /\ pc' = [pc EXCEPT ![t] = "done"]
    /\ result' = [result EXCEPT ![t] = UpdatedReturn(nct_ids[t], limit[t])]
    /\ UNCHANGED <<session, semaphore, op, limit, nct_id, nct_ids, next_page_token,
                   params, sent, fetched>>
    /\ UNCHANGED <<criteria, depth, open_sessions, last, backend>>

updated_request(t) ==
    /\ pc[t] = "loop" /\ op[t] = "get_updated_studies"
    /\ UpdatedLoopTest(nct_ids[t], limit[t])
    /\ Len(fetched[t]) < MaxPages
    /\ CanAcquire(semaphore)
    /\ params' = [params EXCEPT ![t] =
                    IF Truthy(next_page_token[t])
                    THEN [@ EXCEPT !.pageToken = next_page_token[t]] ELSE @]
    /\ IF session = "open"
       THEN /\ semaphore' = Acquire(semaphore)
            /\ sent' = [sent EXCEPT ![t] = Append(@, params'[t])]
            /\ pc' = [pc EXCEPT ![t] = "inflight"]
            /\ UNCHANGED <<fetched, nct_ids, next_page_token, result>>
       ELSE LET out == UpdatedProcess(nct_ids[t], next_page_token[t], ExcResponse) IN
            /\ semaphore' = Release(Acquire(semaphore))
            /\ fetched' = [fetched EXCEPT ![t] = Append(@, ExcResponse)]
            /\ nct_ids' = [nct_ids EXCEPT ![t] = out.nct_ids]
            /\ next_page_token' = [next_page_token EXCEPT ![t] = out.token]
            /\ pc' = [pc EXCEPT ![t] = IF out.brk THEN "done" ELSE "loop"]
            /\ result' = [result EXCEPT ![t] =
                            IF out.raised THEN Raised
                            ELSE IF out.brk THEN UpdatedReturn(out.nct_ids, limit[t])
                            ELSE @]
            /\ UNCHANGED sent
    /\ UNCHANGED <<session, op, limit, nct_id>>
    /\ UNCHANGED <<criteria, depth, open_sessions, last, backend>>

updated_response(t, r) ==
    /\ pc[t] = "inflight" /\ op[t] = "get_updated_studies"
    /\ LET out == UpdatedProcess(nct_ids[t], next_page_token[t], r) IN
       /\ semaphore' = Release(semaphore)
       /\ fetched' = [fetched EXCEPT ![t] = Append(@, r)]
       /\ nct_ids' = [nct_ids EXCEPT ![t] = out.nct_ids]
       /\ next_page_token' = [next_page_token EXCEPT ![t] = out.token]
       /\ pc' = [pc EXCEPT ![t] = IF out.brk THEN "done" ELSE "loop"]
       /\ result' = [result EXCEPT ![t] =
                       IF out.raised THEN Raised
                       ELSE IF out.brk THEN UpdatedReturn(out.nct_ids, limit[t])
                       ELSE @]
    /\ UNCHANGED <<session, op, limit, nct_id, params, sent>>
    /\ UNCHANGED <<criteria, depth, open_sessions, last, backend>>

\* The caller takes the returned value; the task can make its next call.
Return(t) ==
    /\ pc[t] = "done"
    /\ pc' = [pc EXCEPT ![t] = "idle"]
    /\ op' = [op EXCEPT ![t] = "none"]
    /\ limit' = [limit EXCEPT ![t] = 0]
    /\ nct_id' = [nct_id EXCEPT ![t] = ""]
    /\ nct_ids' = [nct_ids EXCEPT ![t] = <<>>]
    /\ next_page_token' = [next_page_token EXCEPT ![t] = Null]
    /\ params' = [params EXCEPT ![t] = NoParams]
    /\ sent' = [sent EXCEPT ![t] = <<>>]
    /\ fetched' = [fetched EXCEPT ![t] = <<>>]
    /\ result' = [result EXCEPT ![t] = Pending]
    /\ criteria' = [criteria EXCEPT ![t] = NoCriteria]
    /\ UNCHANGED <<session, semaphore, depth, open_sessions, backend>>

(***************************************************************************)
(* Spec: one task makes calls one after the other on a scraper whose       *)
(* session is entered and exited at any time; the registry answers each    *)
(* request with any response.                                              *)
(***************************************************************************)
Limits == 0..MaxLimit
DateRanges == {<<"2020-01-01", "2020-12-31">>}
NctIds == {"NCT00000001", "NCT00000002"}

\* get_studies_by_date_range: return await self.search_studies(
\*     start_date_from=start_date, start_date_to=end_date, limit=limit)
get_studies_by_date_range(t, start_date, end_date, lim) ==
    search_studies(t, [NoCriteria EXCEPT !.start_date_from = Str(start_date),
                                         !.start_date_to = Str(end_date)], lim)

\* The caller of Spec keeps no record of the calls it made.
Forget == UNCHANGED last
\* In Spec and SpecConc the scraper's scope is not entered again while it
\* is entered.
Outside == depth = 0

\* (A response arrives only for a call in flight: the guard of the response
\* actions is repeated before their responses are drawn.)
Next ==
    \/ Outside /\ aenter
    \/ aexit
    \/ \E t \in Tasks, lim \in Limits : search_studies(t, NoCriteria, lim)
    \/ \E t \in Tasks, d \in DateRanges, lim \in Limits :
            get_studies_by_date_range(t, d[1], d[2], lim)
    \/ \E t \in Tasks : search_exit(t)
    \/ \E t \in Tasks : search_request(t)
    \/ \E t \in Tasks :
            pc[t] = "inflight" /\ \E r \in SearchResponses : search_response(t, r)
    \/ \E t \in Tasks, id \in NctIds : get_study_detail(t, id)
    \/ \E t \in Tasks : detail_request(t)
    \/ \E t \in Tasks :
            pc[t] = "inflight" /\ \E r \in DetailResponses : detail_response(t, r)
    \/ \E t \in Tasks, lim \in Limits : get_updated_studies(t, lim)
    \/ \E t \in Tasks : updated_exit(t)
    \/ \E t \in Tasks : updated_request(t)
    \/ \E t \in Tasks :
            pc[t] = "inflight" /\ \E r \in SearchResponses : updated_response(t, r)
    \/ \E t \in Tasks : Return(t) /\ Forget

Spec == Init /\ [][Next]_vars

(***************************************************************************)
(* SpecConc: inside the scraper's scope NumTasks calls are started at once *)
(* (asyncio.gather): one search_studies, one get_updated_studies and       *)
(* get_study_detail for the rest, more calls than the semaphore has        *)
(* permits.                                                                *)
(***************************************************************************)
ConcTasks == 1..NumTasks
ConcOp(t) ==
    IF t = 1 THEN "search_studies"
    ELSE IF t = 2 THEN "get_updated_studies"
    ELSE "get_study_detail"

InitConc == session = "none" /\ InitTasks(ConcTasks) /\ InitBackend({1})

\* Every task starts its call; none has run up to its first request yet.
\* The two searches ask for two identifiers, which takes them two pages of
\* the registry of SpecConc.
gather ==
    /\ session = "open"
    /\ \A t \in Tasks : pc[t] = "idle"
    /\ pc' = [t \in Tasks |-> "loop"]
    /\ op' = [t \in Tasks |-> ConcOp(t)]
    /\ limit' = [t \in Tasks |-> IF ConcOp(t) = "get_study_detail" THEN 0 ELSE 2]
    /\ nct_id' = [t \in Tasks |-> IF ConcOp(t) = "get_study_detail" THEN "NCT00000001" ELSE ""]
    /\ params' = [t \in Tasks |->
                    CASE ConcOp(t) = "search_studies" -> SearchParams(NoCriteria, 2)
                      [] ConcOp(t) = "get_updated_studies" -> UpdatedParams(2)
                      [] OTHER -> NoParams]
    /\ UNCHANGED <<session, semaphore, nct_ids, next_page_token, sent, fetched, result>>
    /\ UNCHANGED <<criteria, depth, open_sessions, last, backend>>

ConcSearchResponses ==
    {Response(HttpOk, SearchPage(<<StudyEntry("NCT1")>>, Str("t1"))), Response(500, Null),
     ExcResponse}
ConcDetailResponses == {Response(404, Null)}

\* The get_study_detail calls are identical (same argument, same responses),
\* so every interleaving is kept up to a renaming of these tasks when the
\* waiting ones take their permits in task order.
NextInLine(t) == \A u \in Tasks : (u < t /\ op[u] = op[t]) => pc[u] # "loop"

NextConc ==
    \/ Outside /\ aenter
    \/ gather
    \/ \E t \in Tasks : search_exit(t)
    \/ \E t \in Tasks : search_request(t)
    \/ \E t \in Tasks, r \in ConcSearchResponses : search_response(t, r)
    \/ \E t \in Tasks : NextInLine(t) /\ detail_request(t)
    \/ \E t \in Tasks, r \in ConcDetailResponses : detail_response(t, r)
    \/ \E t \in Tasks : updated_exit(t)
    \/ \E t \in Tasks : updated_request(t)
    \/ \E t \in Tasks, r \in ConcSearchResponses : updated_response(t, r)

SpecConc == InitConc /\ [][NextConc]_vars

(***************************************************************************)
(* SpecConcFair: the calls of SpecConc under the scheduling of the event   *)
(* loop, which runs a coroutine that can run, and with every request in    *)
(* flight completing at some time: a step is taken as long as one is       *)
(* possible.  The get_study_detail calls being identical, their responses  *)
(* are taken in task order as their permits are.                           *)
(***************************************************************************)
FirstOut(t) == \A u \in Tasks : (u < t /\ op[u] = op[t]) => pc[u] = "done"

NextConcFair ==
    \/ Outside /\ aenter
    \/ gather
    \/ \E t \in Tasks : search_exit(t)
    \/ \E t \in Tasks : search_request(t)
    \/ \E t \in Tasks, r \in ConcSearchResponses : search_response(t, r)
    \/ \E t \in Tasks : NextInLine(t) /\ detail_request(t)
    \/ \E t \in Tasks, r \in ConcDetailResponses : FirstOut(t) /\ detail_response(t, r)
    \/ \E t \in Tasks : updated_exit(t)
    \/ \E t \in Tasks : updated_request(t)
    \/ \E t \in Tasks, r \in ConcSearchResponses : updated_response(t, r)

SpecConcFair == InitConc /\ [][NextConcFair]_vars /\ WF_vars(NextConcFair)

(***************************************************************************)
(* SpecRepeat: inside the scraper's scope one task makes a call, keeps     *)
(* what it got, and makes a second call against the unchanged registry:    *)
(* get_study_detail after get_study_detail, get_updated_studies with the   *)
(* same limit after search_studies.  The registry answers the requests of  *)
(* the second call as it answered those of the first.                      *)
(***************************************************************************)
\* The caller keeps the call it made and its outcome.
Remember(t) ==
    last' = [op |-> op[t], limit |-> limit[t], nct_id |-> nct_id[t],
             sent |-> sent[t], fetched |-> fetched[t], result |-> result[t]]

\* The registry is unchanged: request number n of the second call gets the
\* response that request number n of the first call got.
Unchanged(t, r) ==
    (last # NoCall /\ Len(fetched[t]) < Len(last.fetched))
        => r = last.fetched[Len(fetched[t]) + 1]

\* The answers of the registry in SpecRepeat: pages with one or two
\* identifiers, with an entry without identifier, with a malformed entry
\* and without entries, each as a last page and with a token, and the
\* failures; the full document, documents without and with a null
\* protocolSection, and the failures.
RepeatSearchResponses ==
    {Response(HttpOk, SearchPage(es, tok)) :
        es \in { <<>>, <<StudyEntry("NCT1")>>, <<StudyEntry("NCT1"), StudyEntry("NCT2")>>,
                 <<StudyEntry("NCT2"), EntryNoId>>, <<StudyEntry("NCT1"), EntryBad>> },
        tok \in {Absent, Str("t1"), Str("t2")}}
    \cup {Response(HttpOk, BadJson), Response(500, Null), ExcResponse}
RepeatDetailResponses ==
    {Response(HttpOk, PayloadOf([m \in Sections |-> FullSection(m)])),
     Response(HttpOk, EmptyObj), Response(HttpOk, Obj("protocolSection" :> Null)),
     Response(HttpOk, BadJson), Response(404, Null), ExcResponse}

NextRepeat ==
    \/ Outside /\ aenter
    \/ \E t \in Tasks, lim \in Limits :
            session = "open" /\ last = NoCall /\ search_studies(t, NoCriteria, lim)
    \/ \E t \in Tasks : search_exit(t)
    \/ \E t \in Tasks : search_request(t)
    \/ \E t \in Tasks, r \in RepeatSearchResponses : search_response(t, r)
    \/ \E t \in Tasks, id \in NctIds :
            session = "open" /\ last = NoCall /\ get_study_detail(t, id)
    \/ \E t \in Tasks :
            last # NoCall /\ last.op = "get_study_detail" /\ get_study_detail(t, last.nct_id)
    \/ \E t \in Tasks : detail_request(t)
    \/ \E t \in Tasks, r \in RepeatDetailResponses : Unchanged(t, r) /\ detail_response(t, r)
    \/ \E t \in Tasks :
            last # NoCall /\ last.op = "search_studies" /\ get_updated_studies(t, last.limit)
    \/ \E t \in Tasks : updated_exit(t)
    \/ \E t \in Tasks : updated_request(t)
    \/ \E t \in Tasks, r \in RepeatSearchResponses : Unchanged(t, r) /\ updated_response(t, r)
    \/ \E t \in Tasks : last = NoCall /\ Return(t) /\ Remember(t)

SpecRepeat == Init /\ [][NextRepeat]_vars

(***************************************************************************)
(* SpecScope: the scraper's scope is entered and exited, also entered      *)
(* again while it is entered ("async with scraper" inside "async with      *)
(* scraper"), and get_study_detail is called at any time.  The model       *)
(* follows the scraper while at most MaxDepth scopes are entered and at    *)
(* most MaxDepth sessions are open.                                        *)
(***************************************************************************)
NextScope ==
    \/ depth < MaxDepth /\ open_sessions < MaxDepth /\ aenter
    \/ aexit
    \/ \E t \in Tasks, id \in NctIds : get_study_detail(t, id)
    \/ \E t \in Tasks : detail_request(t)
    \/ \E t \in Tasks, r \in RepeatDetailResponses : detail_response(t, r)
    \/ \E t \in Tasks : Return(t) /\ Forget

SpecScope == Init /\ [][NextScope]_vars

(***************************************************************************)
(* The web backend (src/backend/app): security, dependencies, CRUD         *)
(* classes and the endpoints of api/v1/endpoints/users.py.                 *)
(***************************************************************************)
ACCESS_TOKEN_EXPIRE_MINUTES == 480

JWT_SECRET_KEY == "your-secret-key-here"

\* create_access_token: a JWT over the data and the expiry time, signed
\* with JWT_SECRET_KEY.
create_access_token(data) ==
    [t |-> "jwt", sub |-> data.sub, exp |-> now + ACCESS_TOKEN_EXPIRE_MINUTES,
     key |-> JWT_SECRET_KEY]

\* verify_token: the payload of a JWT signed with JWT_SECRET_KEY whose exp
\* has not passed (jwt.decode raises JWTError otherwise), else None.
verify_token(token) ==
    IF token.t = "jwt" /\ token.key = JWT_SECRET_KEY /\ token.exp >= now
    THEN [sub |-> token.sub, exp |-> token.exp]
    ELSE Null

\* CRUDBase.get: the row with this primary key, whatever its is_active.
get(table, id) == IF id \in DOMAIN table THEN table[id] ELSE Null

\* Variant of get_current_user: the user the token names is not looked up.
get_current_user_unchecked(credentials) ==
    IF credentials = Absent THEN Null
    ELSE IF credentials.t # "jwt" THEN Null
    ELSE IF credentials.sub \in DOMAIN users THEN users[credentials.sub]
    ELSE Null

\* get_current_user: the active user a valid token names, or None.
get_current_user(credentials) ==
    IF credentials = Absent THEN Null
    ELSE LET payload == verify_token(credentials) IN
         IF payload = Null THEN Null
         ELSE IF payload.sub = "" THEN Null
         ELSE LET user == get(users, payload.sub) IN
              IF user = Null THEN Null
              ELSE IF ~user.is_active THEN Null
              ELSE user

\* The Python values True and False, as results of a call.
True == [t |-> "bool", b |-> TRUE]

False == [t |-> "bool", b |-> FALSE]

ErrorResponse(code) == [t |-> "error", code |-> code]

\* A request returns: its call is over, with this result.
Respond(r, o, a, res) ==
    calls' = [calls EXCEPT ![r] = [op |-> o, pc |-> "done", args |-> a, result |-> res]]

\* A request is free to make its next call.
Free(r) == calls[r].pc = "done"

Tables == <<users, studies_table, conditions, user_sessions, user_favorites,
            user_history, user_feedback>>

\* CRUDUser.authenticate: the active user of this name with this password.
authenticate(username, password) ==
    LET found == {id \in DOMAIN users : users[id].username = username} IN
    IF found = {} THEN Null
    ELSE LET user == users[CHOOSE id \in found : TRUE] IN
         IF ~user.is_active THEN Null
         ELSE IF ~verify_password(password, user.password_hash) THEN Null
         ELSE user

\* CRUDUserSession.create_session: the new row; its session_token is
\* str(uuid.uuid4()), a token no session has had.
create_session(user_id) ==
    [user_id |-> user_id,
     session_token |-> [t |-> "uuid", n |-> Cardinality(user_sessions) + 1],
     expires_at |-> now + ACCESS_TOKEN_EXPIRE_MINUTES]

\* CRUDUserSession.get_by_token: the unexpired session with this token.
get_by_token(token) ==
    LET found == {s \in user_sessions : s.session_token = token /\ s.expires_at > now} IN
    IF found = {} THEN Null ELSE CHOOSE s \in found : TRUE

\* CRUDUserSession.expire_session: the table after the UPDATE.
expire_session(token) ==
    {IF s.session_token = token THEN [s EXCEPT !.expires_at = now] ELSE s :
        s \in user_sessions}

\* login: authenticate, update_last_login, create the access token and the
\* session, return the TokenResponse (which holds the access token only).
login(r, username, password) ==
    /\ Free(r)
    /\ LET user == authenticate(username, password) IN
       IF user = Null
       THEN /\ Respond(r, "login", <<username>>, ErrorResponse(401))
            /\ UNCHANGED <<Tables, access_tokens>>
       ELSE LET access_token == create_access_token([sub |-> user.id])
                session_row == create_session(user.id)
            IN  /\ users' = [users EXCEPT ![user.id].last_login = Num(now)]
                /\ user_sessions' = user_sessions \cup {session_row}
                /\ access_tokens' = access_tokens \cup
                       {[access_token |-> access_token,
                         session_token |-> session_row.session_token]}
                /\ Respond(r, "login", <<username>>, [access_token |-> access_token])
                /\ UNCHANGED <<studies_table, conditions, user_favorites,
                               user_history, user_feedback>>
    /\ UNCHANGED <<scraper, now>>

\* logout: HTTPBearer() refuses a request without credentials (403); a
\* token that verifies is handed to expire_session.
logout(r, credentials) ==
    /\ Free(r)
    /\ IF credentials = Absent
       THEN /\ Respond(r, "logout", <<credentials>>, ErrorResponse(403))
            /\ UNCHANGED user_sessions
       ELSE LET token == credentials
                payload == verify_token(token)
            IN  /\ IF payload # Null
                   THEN user_sessions' = expire_session(token)
                   ELSE UNCHANGED user_sessions
                /\ Respond(r, "logout", <<credentials>>, [message |-> "ok"])
    /\ UNCHANGED <<scraper, users, studies_table, conditions, user_favorites,
                   user_history, user_feedback, now, access_tokens>>

\* update_current_user: with no current user, current_user.id raises and
\* the handler answers 500; else CRUDBase.update sets the fields given.
update_current_user(r, credentials, user_in) ==
    /\ Free(r)
    /\ LET current_user == get_current_user(credentials) IN
       IF current_user = Null
       THEN /\ Respond(r, "update_current_user", <<>>, ErrorResponse(500))
            /\ UNCHANGED users
       ELSE LET user == get(users, current_user.id) IN
            IF user = Null
            THEN /\ Respond(r, "update_current_user", <<>>, ErrorResponse(404))
                 /\ UNCHANGED users
            ELSE /\ users' = [users EXCEPT ![user.id].full_name = user_in.full_name]
                 /\ Respond(r, "update_current_user", <<>>,
                            [user EXCEPT !.full_name = user_in.full_name])
    /\ UNCHANGED <<scraper, studies_table, conditions, user_sessions, user_favorites,
                   user_history, user_feedback, now, access_tokens>>

\* change_password: 500 with no current user, 400 for a wrong current
\* password or a weak new one, else CRUDUser.change_password.
change_password(r, credentials, current_password, new_password) ==
    /\ Free(r)
    /\ LET current_user == get_current_user(credentials) IN
       IF current_user = Null
       THEN /\ Respond(r, "change_password", <<>>, ErrorResponse(500))
            /\ UNCHANGED users
       ELSE LET user == get(users, current_user.id) IN
            IF user = Null
            THEN /\ Respond(r, "change_password", <<>>, ErrorResponse(404))
                 /\ UNCHANGED users
            ELSE IF ~verify_password(current_password, user.password_hash)
            THEN /\ Respond(r, "change_password", <<>>, ErrorResponse(400))
                 /\ UNCHANGED users
            ELSE IF ~validate_password(new_password)
            THEN /\ Respond(r, "change_password", <<>>, ErrorResponse(400))
                 /\ UNCHANGED users
            ELSE /\ users' = [users EXCEPT
                        ![user.id].password_hash = get_password_hash(new_password)]
                 /\ Respond(r, "change_password", <<>>, [message |-> "ok"])
    /\ UNCHANGED <<scraper, studies_table, conditions, user_sessions, user_favorites,
                   user_history, user_feedback, now, access_tokens>>

\* The SELECT of add_favorite, remove_favorite and is_favorited: whether a
\* row of this user and this study exists.
Favorited(user_id, study_id) == user_favorites[<<user_id, study_id>>] > 0

\* Variant of uq_user_favorite: the table has no such constraint.
uq_user_favorite_absent(user_id, study_id) == TRUE

\* UniqueConstraint('user_id', 'study_id'): whether the database accepts
\* one more row of this user and this study.
uq_user_favorite(user_id, study_id) == user_favorites[<<user_id, study_id>>] = 0

\* CRUDUserFavorite.add_favorite up to its first await: the SELECT, and
\* the return of None if it found a row.
add_favorite(r, user_id, study_id) ==
    /\ Free(r)
    /\ IF Favorited(user_id, study_id)
       THEN Respond(r, "add_favorite", <<user_id, study_id>>, Null)
       ELSE calls' = [calls EXCEPT ![r] = [op |-> "add_favorite", pc |-> "commit",
                                           args |-> <<user_id, study_id>>,
                                           result |-> Null]]
    /\ UNCHANGED <<scraper, Tables, now, access_tokens>>

\* The rest of add_favorite: db.add and the commit, which the unique
\* constraint refuses (IntegrityError) if the row has appeared meanwhile.
add_favorite_commit(r) ==
    /\ calls[r].op = "add_favorite"
    /\ calls[r].pc = "commit"
    /\ LET user_id == calls[r].args[1]
           study_id == calls[r].args[2]
       IN  IF uq_user_favorite(user_id, study_id)
           THEN /\ user_favorites' = [user_favorites EXCEPT ![<<user_id, study_id>>] = @ + 1]
                /\ Respond(r, "add_favorite", calls[r].args,
                           [user_id |-> user_id, study_id |-> study_id])
           ELSE /\ Respond(r, "add_favorite", calls[r].args, Raised)
                /\ UNCHANGED user_favorites
    /\ UNCHANGED <<scraper, users, studies_table, conditions, user_sessions,
                   user_history, user_feedback, now, access_tokens>>

\* CRUDUserFavorite.remove_favorite up to its first await: the SELECT, and
\* the return of False if it found no row.
remove_favorite(r, user_id, study_id) ==
    /\ Free(r)
    /\ IF Favorited(user_id, study_id)
       THEN calls' = [calls EXCEPT ![r] = [op |-> "remove_favorite", pc |-> "commit",
                                           args |-> <<user_id, study_id>>,
                                           result |-> Null]]
       ELSE Respond(r, "remove_favorite", <<user_id, study_id>>, False)
    /\ UNCHANGED <<scraper, Tables, now, access_tokens>>

\* The rest of remove_favorite: db.delete and the commit; a row another
\* request has deleted meanwhile is deleted no further.
remove_favorite_commit(r) ==
    /\ calls[r].op = "remove_favorite"
    /\ calls[r].pc = "commit"
    /\ LET user_id == calls[r].args[1]
           study_id == calls[r].args[2]
       IN  user_favorites' = [user_favorites EXCEPT ![<<user_id, study_id>>] =
                                  IF @ > 0 THEN @ - 1 ELSE @]
    /\ Respond(r, "remove_favorite", calls[r].args, True)
    /\ UNCHANGED <<scraper, users, studies_table, conditions, user_sessions,
                   user_history, user_feedback, now, access_tokens>>

\* The endpoint add_favorite of users.py: 404 for an unknown study, 500
\* with no current user (current_user.id raises), else the CRUD call.
users_add_favorite(r, credentials, study_id) ==
    LET current_user == get_current_user(credentials) IN
    IF get(studies_table, study_id) = Null
    THEN /\ Free(r)
         /\ Respond(r, "users_add_favorite", <<>>, ErrorResponse(404))
         /\ UNCHANGED <<scraper, Tables, now, access_tokens>>
    ELSE IF current_user = Null
    THEN /\ Free(r)
         /\ Respond(r, "users_add_favorite", <<>>, ErrorResponse(500))
         /\ UNCHANGED <<scraper, Tables, now, access_tokens>>
    ELSE add_favorite(r, current_user.id, study_id)

\* The endpoint remove_favorite of users.py.
users_remove_favorite(r, credentials, study_id) ==
    LET current_user == get_current_user(credentials) IN
    IF current_user = Null
    THEN /\ Free(r)
         /\ Respond(r, "users_remove_favorite", <<>>, ErrorResponse(500))
         /\ UNCHANGED <<scraper, Tables, now, access_tokens>>
    ELSE remove_favorite(r, current_user.id, study_id)

\* CRUDUserHistory.add_history: one more row.
add_history(r, user_id, study_id) ==
    /\ Free(r)
    /\ user_history' = [user_history EXCEPT ![<<user_id, study_id>>] = @ + 1]
    /\ Respond(r, "add_history", <<user_id, study_id>>,
               [user_id |-> user_id, study_id |-> study_id])
    /\ UNCHANGED <<scraper, users, studies_table, conditions, user_sessions,
                   user_favorites, user_feedback, now, access_tokens>>

RECURSIVE Sum(_, _)
Sum(f, S) == IF S = {} THEN 0
             ELSE LET x == CHOOSE y \in S : TRUE IN f[x] + Sum(f, S \ {x})

\* clear_history: 500 with no current user, else every history row of the
\* user is deleted and their number returned.
clear_history(r, credentials) ==
    /\ Free(r)
    /\ LET current_user == get_current_user(credentials) IN
       IF current_user = Null
       THEN /\ Respond(r, "clear_history", <<>>, ErrorResponse(500))
            /\ UNCHANGED user_history
       ELSE LET mine == {p \in DOMAIN user_history : p[1] = current_user.id} IN
            /\ user_history' = [p \in DOMAIN user_history |->
                                    IF p \in mine THEN 0 ELSE user_history[p]]
            /\ Respond(r, "clear_history", <<>>,
                       [count |-> Sum(user_history, mine)])
    /\ UNCHANGED <<scraper, users, studies_table, conditions, user_sessions,
                   user_favorites, user_feedback, now, access_tokens>>

\* create_feedback: 500 with no current user (current_user.id raises
\* before the row is built), else CRUDBase.create inserts the row.
create_feedback(r, credentials, feedback_in) ==
    /\ Free(r)
    /\ LET current_user == get_current_user(credentials) IN
       IF current_user = Null
       THEN /\ Respond(r, "create_feedback", <<>>, ErrorResponse(500))
            /\ UNCHANGED user_feedback
       ELSE LET feedback == [user_id |-> current_user.id,
                             study_id |-> feedback_in.study_id,
                             feedback_text |-> feedback_in.feedback_text]
            IN  /\ user_feedback' = Append(user_feedback, feedback)
                /\ Respond(r, "create_feedback", <<>>, feedback)
    /\ UNCHANGED <<scraper, users, studies_table, conditions, user_sessions,
                   user_favorites, user_history, now, access_tokens>>

\* The models CRUDBase is instantiated for here, and whether the model
\* class has the attribute is_active.
Models == {"User", "Study", "Condition"}

hasattr_is_active(model) == model \in {"User", "Study"}

TableOf(model) ==
    CASE model = "User" -> users
      [] model = "Study" -> studies_table
      [] model = "Condition" -> conditions

\* remove, for a model with is_active: the row stays, with is_active False.
SoftDelete(table, id) == [table EXCEPT ![id].is_active = FALSE]

\* remove, for a model without is_active: db.delete(obj).
Delete(table, id) == [i \in DOMAIN table \ {id} |-> table[i]]

\* CRUDBase.remove: None for an unknown id; else the soft or the physical
\* delete, and the object (refreshed after a soft delete) is returned.
remove(r, model, id) ==
    /\ Free(r)
    /\ LET obj == get(TableOf(model), id) IN
       IF obj = Null
       THEN /\ Respond(r, "remove", <<model, id>>, Null)
            /\ UNCHANGED <<users, studies_table, conditions>>
       ELSE LET after == IF hasattr_is_active(model)
                         THEN SoftDelete(TableOf(model), id)
                         ELSE Delete(TableOf(model), id)
            IN  /\ users' = IF model = "User" THEN after ELSE users
                /\ studies_table' = IF model = "Study" THEN after ELSE studies_table
                /\ conditions' = IF model = "Condition" THEN after ELSE conditions
                /\ Respond(r, "remove", <<model, id>>,
                           IF hasattr_is_active(model) THEN after[id] ELSE obj)
    /\ UNCHANGED <<scraper, user_sessions, user_favorites, user_history,
                   user_feedback, now, access_tokens>>

\* Variant of SearchBase: every row is a candidate.
SearchBase_all(row) == TRUE

\* The base query of CRUDStudy.search_studies: Study.is_active == True.
SearchBase(row) == row.is_active = TRUE

\* The WHERE clause of search_studies: the base query, every term of the
\* query (query.split()) in the title (ilike "%term%"; a text is the set
\* of its words), and the phase filter if given.
SearchMatches(row, query, filters) ==
    /\ SearchBase(row)
    /\ \A i \in 1..Len(query) : query[i] \in row.official_title
    /\ filters.phase # {} => row.phase \in filters.phase

\* The orders the database may return a set of rows in (the rows are
\* sorted by updated_at, which they all share).
Orders(S) == {o \in [1..Cardinality(S) -> S] : \A i, j \in 1..Cardinality(S) : i # j => o[i] # o[j]}

\* offset((page - 1) * size).limit(size)
Page(rows, page, size) ==
    LET offset == (page - 1) * size IN
    SubSeq(rows, offset + 1, IF offset + size < Len(rows) THEN offset + size ELSE Len(rows))

\* CRUDStudy.search_studies: the page of matching studies and their total.
CRUDStudy_search_studies(r, query, filters, page, size) ==
    /\ Free(r)
    /\ LET matching == {id \in DOMAIN studies_table :
                           SearchMatches(studies_table[id], query, filters)}
       IN  \E o \in Orders(matching) :
               Respond(r, "search_studies", <<query, filters, page, size>>,
                       [studies |-> Page([i \in 1..Len(o) |-> studies_table[o[i]]], page, size),
                        total |-> Cardinality(matching)])
    /\ UNCHANGED <<scraper, Tables, now, access_tokens>>

\* Time passes, as long as a session has not expired: to the minute an
\* access token issued at the start of the current period expires, or to
\* the minute after it.
Tick(d) ==
    /\ \E s \in user_sessions : s.expires_at >= now
    /\ now' = ((now \div ACCESS_TOKEN_EXPIRE_MINUTES) + 1) * ACCESS_TOKEN_EXPIRE_MINUTES + d
    /\ UNCHANGED <<scraper, Tables, access_tokens, calls>>


\* The credentials the model's clients send: none, a string that is no
\* JWT, a JWT signed with another key, a JWT for a user the table does not
\* hold, and every access token login has returned.
Credentials ==
    {Absent,
     [t |-> "str", s |-> "garbage"],
     [t |-> "jwt", sub |-> "u1", exp |-> (MaxRows + 2) * ACCESS_TOKEN_EXPIRE_MINUTES,
      key |-> "another-key"],
     [t |-> "jwt", sub |-> "u9", exp |-> (MaxRows + 2) * ACCESS_TOKEN_EXPIRE_MINUTES,
      key |-> JWT_SECRET_KEY]}
    \cup {a.access_token : a \in access_tokens}

Requests == DOMAIN calls

\* The rows inserted so far into the tables that only grow by the calls of
\* the model: sessions, history and feedback.
Rows == Cardinality(user_sessions) + Sum(user_history, DOMAIN user_history)
            + Len(user_feedback)

FeedbackInputs == {[study_id |-> Null, feedback_text |-> "ten letters"]}

\* The user endpoints, one request at a time, with logins, deactivation of
\* users and the passing of time.
NextUsers ==
    \/ \E r \in Requests, pw \in {InitialPassword, <<"a", "1">>} :
            Rows < MaxRows /\ login(r, "u1", pw)
    \/ \E r \in Requests, c \in Credentials : logout(r, c)
    \/ \E r \in Requests, c \in Credentials :
            update_current_user(r, c, [full_name |-> "new"])
    \/ \E r \in Requests, c \in Credentials, pw \in Passwords :
            change_password(r, c, InitialPassword, pw)
    \/ \E r \in Requests, c \in Credentials, s \in {"s1", "s9"} :
            users_add_favorite(r, c, s)
    \/ \E r \in Requests : add_favorite_commit(r)
    \/ \E r \in Requests, c \in Credentials : users_remove_favorite(r, c, "s1")
    \/ \E r \in Requests : remove_favorite_commit(r)
    \/ \E r \in Requests :
            Rows < MaxRows /\ add_history(r, "u1", "s1")
    \/ \E r \in Requests, c \in Credentials : clear_history(r, c)
    \/ \E r \in Requests, c \in Credentials, f \in FeedbackInputs :
            Rows < MaxRows /\ create_feedback(r, c, f)
    \/ \E r \in Requests : remove(r, "User", "u1")
    \/ \E d \in {0, 1} : Tick(d)

SpecUsers == Init /\ [][NextUsers]_vars

\* Two requests run the favorite calls of CRUDUserFavorite concurrently:
\* each await of a call is a point where the other request may run.
InitFavorites == session = "none" /\ InitTasks({1}) /\ InitBackend({1, 2})

NextFavorites ==
    \/ \E r \in Requests, p \in {"u1"} \X {"s1", "s2"} : add_favorite(r, p[1], p[2])
    \/ \E r \in Requests : add_favorite_commit(r)
    \/ \E r \in Requests, p \in {"u1"} \X {"s1", "s2"} : remove_favorite(r, p[1], p[2])
    \/ \E r \in Requests : remove_favorite_commit(r)

SpecFavorites == InitFavorites /\ [][NextFavorites]_vars

\* CRUDBase.remove on the three models and searches of the studies.
NextRemove ==
    \/ \E r \in Requests, m \in Models, id \in UserIds \cup StudyIds \cup ConditionIds \cup {"x9"} :
            remove(r, m, id)
    \/ \E r \in Requests, q \in {<<>>, <<"lung">>, <<"lung", "cancer">>},
          f \in {[phase |-> {}], [phase |-> {"PHASE2"}]},
          page \in 1..MaxPage, size \in 1..MaxSize :
            CRUDStudy_search_studies(r, q, f, page, size)

SpecRemove == Init /\ [][NextRemove]_vars

(***************************************************************************)
(* Properties.                                                             *)
(***************************************************************************)
Done(t, o) == pc[t] = "done" /\ op[t] = o

\* The registry's view of a search response: a page is a 200 response whose
\* body is a dict with a list of studies.
OkPage(r) ==
    /\ ~r.exc /\ r.status = HttpOk /\ r.body.t = "obj"
    /\ Get(r.body, "studies", EmptyList).t = "list"
Entries(r) == Get(r.body, "studies", EmptyList).l
Readable(e) == StudyNctId(e) # Raised
\* The page request succeeded: the page was received and read to its end.
Succeeded(r) == OkPage(r) /\ \A i \in 1..Len(Entries(r)) : Readable(Entries(r)[i])
HasToken(r) == Truthy(Get(r.body, "nextPageToken", Null))
\* The identifiers fetched with the response r, in the registry's order:
\* those of the entries that carry one; a page whose reading fails at a
\* malformed entry counts with the entries before that entry.
PageIds(r) ==
    IF ~OkPage(r) THEN <<>>
    ELSE LET es == Entries(r)
             bad == {i \in 1..Len(es) : ~Readable(es[i])}
             n == IF bad = {} THEN Len(es)
                  ELSE (CHOOSE i \in bad : \A j \in bad : i <= j) - 1
             ids == [i \in 1..n |-> StudyNctId(es[i])]
         IN SelectSeq(ids, Truthy)
RECURSIVE AllIds(_)
AllIds(fs) == IF fs = <<>> THEN <<>> ELSE PageIds(Head(fs)) \o AllIds(Tail(fs))

\* C1: a search_studies call returns a list of at most limit identifiers,
\* whatever the registry answered (pages of any size, any token, failures).
C1_AtMostLimit ==
    \A t \in Tasks : Done(t, "search_studies") =>
        /\ result[t].t = "list"
        /\ Len(result[t].l) <= limit[t]
\* A call returned limit identifiers after it had accumulated more of them.
C1_Witness ==
    \E t \in Tasks :
        /\ Done(t, "search_studies") /\ result[t].t = "list"
        /\ Len(nct_ids[t]) > limit[t] /\ Len(result[t].l) = limit[t] /\ limit[t] > 0

\* C2: when every page request of a finished search_studies call succeeded
\* and the pages hold fewer identifiers than limit, the call followed the
\* tokens to a response without token (every earlier response carried one)
\* and returns exactly the identifiers of all the pages.
C2_AllMatchesWhenFewer ==
    \A t \in Tasks :
        ( /\ Done(t, "search_studies")
          /\ \A i \in 1..Len(fetched[t]) : Succeeded(fetched[t][i])
          /\ Len(AllIds(fetched[t])) < limit[t] )
        => /\ Len(fetched[t]) > 0
           /\ ~HasToken(fetched[t][Len(fetched[t])])
           /\ \A i \in 1..(Len(fetched[t]) - 1) : HasToken(fetched[t][i])
           /\ Len(sent[t]) = Len(fetched[t])
           /\ result[t] = List(AllIds(fetched[t]))
\* A call followed a token chain of several pages to its end and returned
\* all the identifiers, fewer than limit.
C2_Witness ==
    \E t \in Tasks :
        /\ Done(t, "search_studies")
        /\ Len(fetched[t]) >= 2
        /\ \A i \in 1..Len(fetched[t]) : Succeeded(fetched[t][i])
        /\ Len(PageIds(fetched[t][1])) > 0 /\ Len(PageIds(fetched[t][2])) > 0
        /\ Len(AllIds(fetched[t])) < limit[t]
        /\ result[t] = List(AllIds(fetched[t]))

\* C3: when page K of a search_studies call returns a non-success status,
\* the call stops there without raising and returns the identifiers of the
\* pages 1..K-1, cut to limit.
C3_StopAtFailedPage ==
    \A t \in Tasks :
        LET K == Len(fetched[t]) IN
        ( /\ Done(t, "search_studies") /\ K >= 1
          /\ ~fetched[t][K].exc /\ fetched[t][K].status # HttpOk )
        => /\ result[t] = List(Take(AllIds(SubSeq(fetched[t], 1, K - 1)), limit[t]))
           /\ Len(sent[t]) = K
\* Page 2 failed after a first page that delivered identifiers.
C3_Witness ==
    \E t \in Tasks :
        /\ Done(t, "search_studies") /\ Len(fetched[t]) >= 2
        /\ ~fetched[t][Len(fetched[t])].exc
        /\ fetched[t][Len(fetched[t])].status # HttpOk
        /\ result[t].t = "list" /\ Len(result[t].l) > 0

\* C4: the list a search_studies call returns is the first
\* min(limit, number fetched) identifiers of the concatenation of the
\* identifiers fetched page by page, in page order and within-page order.
C4_PrefixInRegistryOrder ==
    \A t \in Tasks : Done(t, "search_studies") =>
        LET all == AllIds(fetched[t]) IN
        result[t] = List(SubSeq(all, 1, Min(limit[t], Len(all))))
\* Two pages contributed, the last one beyond limit, and the identifiers
\* differ so that their order shows.
C4_Witness ==
    \E t \in Tasks :
        /\ Done(t, "search_studies") /\ Len(fetched[t]) >= 2
        /\ Len(PageIds(fetched[t][1])) = 2 /\ Len(PageIds(fetched[t][2])) = 2
        /\ PageIds(fetched[t][1])[1] # PageIds(fetched[t][1])[2]
        /\ limit[t] = 3
        /\ result[t] = List(PageIds(fetched[t][1]) \o <<PageIds(fetched[t][2])[1]>>)

\* C5: at most 10 requests of one scraper are outstanding at any time,
\* for concurrent search_studies, get_study_detail and get_updated_studies.
Outstanding == {t \in Tasks : pc[t] = "inflight"}
C5_AtMostTenOutstanding == Cardinality(Outstanding) <= SemaphoreValue
\* Ten requests are outstanding, a search and an updated-studies request
\* among them, while another call waits for a permit.
C5_Witness ==
    /\ Cardinality(Outstanding) = SemaphoreValue
    /\ \E t \in Tasks : pc[t] = "loop" /\ op[t] = "get_study_detail"
    /\ \E t \in Outstanding : op[t] = "search_studies"
    /\ \E t \in Outstanding : op[t] = "get_updated_studies"

\* The fields of a StudyData that come from the section m of the payload.
SectionFields(m) ==
    CASE m = "identificationModule" -> {"nct_id", "official_title", "brief_title", "acronym"}
      [] m = "statusModule" -> {"status", "start_date", "completion_date"}
      [] m = "designModule" -> {"study_type", "phase", "enrollment"}
      [] m = "descriptionModule" -> {"brief_summary", "detailed_description"}
      [] m = "conditionsModule" -> {"conditions"}
      [] m = "armsInterventionsModule" -> {"interventions"}
      [] m = "sponsorsCollaboratorsModule" -> {"sponsor_name"}
      [] m = "outcomesModule" -> {"primary_endpoint", "secondary_endpoint"}
ExtractedFields == UNION {SectionFields(m) : m \in Sections}
\* The value of a field whose section is not in the payload.
DefaultOf(field) ==
    IF field \in {"nct_id", "official_title"} THEN Str("")
    ELSE IF field \in {"conditions", "interventions"} THEN EmptyList
    ELSE Null
\* The payload data with the section m present and complete.
WithFullSection(data, m) ==
    Obj("protocolSection" :> Obj((m :> FullSection(m)) @@ data.f["protocolSection"].f))
\* The payload data is a document whose protocolSection has no section m.
LacksSection(data, m) ==
    /\ data.t = "obj" /\ "protocolSection" \in DOMAIN data.f
    /\ data.f["protocolSection"].t = "obj"
    /\ m \notin DOMAIN data.f["protocolSection"].f
IsSuccess(r) == ~r.exc /\ r.status = HttpOk
IsRecord(v) == v.t = "StudyData"

\* C6: a finished get_study_detail call has issued at most one request and
\* exactly one when it got a response; it returns the normalized record
\* when the response is a success that parses, None on a non-success
\* status and on every exception of the fetch or the parse, and never
\* raises.
C6_DetailOneRequestRecordOrNone ==
    \A t \in Tasks : Done(t, "get_study_detail") =>
        /\ Len(fetched[t]) = 1 /\ Len(sent[t]) <= 1
        /\ LET r == fetched[t][1] IN
           /\ (Len(sent[t]) = 0 => r.exc)
           /\ IF IsSuccess(r) /\ r.body # BadJson /\ parse_study_data(r.body) # Raised
              THEN result[t] = parse_study_data(r.body) /\ IsRecord(result[t])
              ELSE result[t] = Null
\* A call got a success response to its one request and returned a record.
C6_Witness ==
    \E t \in Tasks :
        /\ Done(t, "get_study_detail") /\ Len(sent[t]) = 1
        /\ IsSuccess(fetched[t][1]) /\ IsRecord(result[t])
        /\ result[t].nct_id = Str("NCT00000001")

\* C7: every record returned by get_study_detail has a non-empty
\* identifier; a payload without nctId yields None.
C7_RecordHasIdentifier ==
    \A t \in Tasks :
        (Done(t, "get_study_detail") /\ IsRecord(result[t])) => Truthy(result[t].nct_id)

\* C8: for a success payload that follows the registry's schema and lacks
\* a whole section, get_study_detail returns a record in which the fields
\* of that section have their default and every other field has the value
\* it has when the section is present.
C8_MissingSectionDefaults ==
    \A t \in Tasks :
        ( /\ Done(t, "get_study_detail")
          /\ IsSuccess(fetched[t][1])
          /\ fetched[t][1].body \in SchemaPayloads )
        => /\ IsRecord(result[t])
           /\ \A m \in Sections :
                LacksSection(fetched[t][1].body, m) =>
                    /\ \A k \in SectionFields(m) : result[t][k] = DefaultOf(k)
                    /\ \A k \in ExtractedFields \ SectionFields(m) :
                         result[t][k] =
                            parse_study_data(WithFullSection(fetched[t][1].body, m))[k]
\* The payload has nctId and overallStatus but no descriptionModule: the
\* record keeps nct_id and status and has no summaries.
C8_Witness ==
    \E t \in Tasks :
        /\ Done(t, "get_study_detail") /\ IsSuccess(fetched[t][1])
        /\ fetched[t][1].body \in SchemaPayloads
        /\ LacksSection(fetched[t][1].body, "descriptionModule")
        /\ IsRecord(result[t])
        /\ result[t].nct_id = Str("NCT00000001") /\ result[t].status = Str("COMPLETED")
        /\ result[t].brief_summary = Null /\ result[t].detailed_description = Null

\* C9: for a success payload (a JSON document with a protocolSection) in
\* which a section or nested value has an unexpected type,
\* get_study_detail still returns a record.
C9_UnexpectedTypeTolerated ==
    \A t \in Tasks :
        ( /\ Done(t, "get_study_detail")
          /\ IsSuccess(fetched[t][1])
          /\ fetched[t][1].body.t = "obj"
          /\ Get(fetched[t][1].body, "protocolSection", Null).t = "obj" )
        => IsRecord(result[t])

\* C10: in every record returned by get_study_detail conditions and
\* interventions are lists (empty when the payload has none), never None.
C10_CollectionsAreLists ==
    \A t \in Tasks :
        (Done(t, "get_study_detail") /\ IsRecord(result[t])) =>
            /\ result[t].conditions.t = "list"
            /\ result[t].interventions.t = "list"
\* A record for a payload without conditions and without interventions.
C10_Witness ==
    \E t \in Tasks :
        /\ Done(t, "get_study_detail") /\ IsRecord(result[t])
        /\ IsSuccess(fetched[t][1])
        /\ LacksSection(fetched[t][1].body, "conditionsModule")
        /\ LacksSection(fetched[t][1].body, "armsInterventionsModule")
        /\ result[t].conditions = EmptyList /\ result[t].interventions = EmptyList

\* The payload data has no value under protocolSection.m.key: the document,
\* the section or the key is missing.
KeyMissing(data, m, key) ==
    /\ data.t = "obj"
    /\ \/ "protocolSection" \notin DOMAIN data.f
       \/ /\ data.f["protocolSection"].t = "obj"
          /\ \/ m \notin DOMAIN data.f["protocolSection"].f
             \/ /\ data.f["protocolSection"].f[m].t = "obj"
                /\ key \notin DOMAIN data.f["protocolSection"].f[m].f
\* The payload data has a list under protocolSection.m.key.
ListAt(data, m, key) ==
    /\ data.t = "obj" /\ "protocolSection" \in DOMAIN data.f
    /\ data.f["protocolSection"].t = "obj"
    /\ m \in DOMAIN data.f["protocolSection"].f
    /\ data.f["protocolSection"].f[m].t = "obj"
    /\ key \in DOMAIN data.f["protocolSection"].f[m].f
    /\ data.f["protocolSection"].f[m].f[key].t = "list"
At(data, m, key) == data.f["protocolSection"].f[m].f[key].l
\* The description of a list entry, None when the entry has none.
DescriptionOf(e) == IF "description" \in DOMAIN e.f THEN e.f["description"] ELSE Null

\* C11: in every record returned by get_study_detail, phase is the first
\* element of the payload's phases list when that list is not empty,
\* whatever follows it, and None when the list is empty or the key or the
\* section is missing.
C11_PhaseIsFirstElement ==
    \A t \in Tasks :
        (Done(t, "get_study_detail") /\ IsSuccess(fetched[t][1]) /\ IsRecord(result[t])) =>
            LET data == fetched[t][1].body IN
            /\ ListAt(data, "designModule", "phases") =>
                 LET phases == At(data, "designModule", "phases") IN
                 result[t].phase = IF Len(phases) > 0 THEN phases[1] ELSE Null
            /\ KeyMissing(data, "designModule", "phases") => result[t].phase = Null
\* A record for a payload with two phases: phase is the first of them.
C11_Witness ==
    \E t \in Tasks :
        /\ Done(t, "get_study_detail") /\ IsSuccess(fetched[t][1]) /\ IsRecord(result[t])
        /\ ListAt(fetched[t][1].body, "designModule", "phases")
        /\ At(fetched[t][1].body, "designModule", "phases") = <<Str("PHASE2"), Str("PHASE3")>>
        /\ result[t].phase = Str("PHASE2")

\* C12: in every record returned by get_study_detail, primary_endpoint is
\* the description of the first primaryOutcomes entry and
\* secondary_endpoint that of the first secondaryOutcomes entry: None when
\* the first entry has no description, whatever the later entries carry,
\* and None when the list is empty or missing.
C12_EndpointIsFirstDescription ==
    \A t \in Tasks :
        (Done(t, "get_study_detail") /\ IsSuccess(fetched[t][1]) /\ IsRecord(result[t])) =>
            LET data == fetched[t][1].body
                Holds(key, field) ==
                    /\ ListAt(data, "outcomesModule", key) =>
                         LET outcomes == At(data, "outcomesModule", key) IN
                         result[t][field] = IF Len(outcomes) > 0
                                            THEN DescriptionOf(outcomes[1]) ELSE Null
                    /\ KeyMissing(data, "outcomesModule", key) => result[t][field] = Null
            IN Holds("primaryOutcomes", "primary_endpoint")
               /\ Holds("secondaryOutcomes", "secondary_endpoint")
\* A record for a payload whose first primary outcome has no description
\* while the second has one: primary_endpoint is None.
C12_Witness ==
    \E t \in Tasks :
        /\ Done(t, "get_study_detail") /\ IsSuccess(fetched[t][1]) /\ IsRecord(result[t])
        /\ ListAt(fetched[t][1].body, "outcomesModule", "primaryOutcomes")
        /\ LET outcomes == At(fetched[t][1].body, "outcomesModule", "primaryOutcomes") IN
           /\ Len(outcomes) = 2
           /\ DescriptionOf(outcomes[1]) = Null /\ DescriptionOf(outcomes[2]) # Null
        /\ result[t].primary_endpoint = Null

\* C13: in every record returned by get_study_detail, conditions is the
\* payload's conditions list with each entry c wrapped as {name: c}, and
\* interventions has, at each position, the type, name and description of
\* the payload's intervention at that position (None for a key the entry
\* lacks): same length, same order.
C13_ListsKeepLengthAndOrder ==
    \A t \in Tasks :
        (Done(t, "get_study_detail") /\ IsSuccess(fetched[t][1]) /\ IsRecord(result[t])) =>
            LET data == fetched[t][1].body IN
            /\ ListAt(data, "conditionsModule", "conditions") =>
                 LET cs == At(data, "conditionsModule", "conditions") IN
                 /\ Len(result[t].conditions.l) = Len(cs)
                 /\ \A i \in 1..Len(cs) : result[t].conditions.l[i] = Obj("name" :> cs[i])
            /\ ListAt(data, "armsInterventionsModule", "interventions") =>
                 LET is == At(data, "armsInterventionsModule", "interventions") IN
                 /\ Len(result[t].interventions.l) = Len(is)
                 /\ \A i \in 1..Len(is) : \A k \in {"type", "name", "description"} :
                      result[t].interventions.l[i].f[k] =
                         IF k \in DOMAIN is[i].f THEN is[i].f[k] ELSE Null
\* A record for a payload with the conditions B, A and two interventions,
\* the second without description: both lists keep their order.
C13_Witness ==
    \E t \in Tasks :
        /\ Done(t, "get_study_detail") /\ IsSuccess(fetched[t][1]) /\ IsRecord(result[t])
        /\ ListAt(fetched[t][1].body, "conditionsModule", "conditions")
        /\ ListAt(fetched[t][1].body, "armsInterventionsModule", "interventions")
        /\ result[t].conditions = List(<<Obj("name" :> Str("B")), Obj("name" :> Str("A"))>>)
        /\ Len(result[t].interventions.l) = 2
        /\ result[t].interventions.l[1].f["name"] = Str("X")
        /\ result[t].interventions.l[2].f["name"] = Str("Y")
        /\ result[t].interventions.l[2].f["description"] = Null

\* C14: a get_study_detail call that follows a finished get_study_detail
\* call with the same identifier, the registry's answer being unchanged,
\* issues its own request, the same one as the first call, and returns a
\* value equal to the one the first call returned.
C14_SecondDetailFetchesAgain ==
    \A t \in Tasks :
        ( /\ Done(t, "get_study_detail")
          /\ last # NoCall /\ last.op = "get_study_detail" /\ last.nct_id = nct_id[t] )
        => /\ Len(last.sent) = 1 /\ Len(sent[t]) = 1
           /\ sent[t] = last.sent
           /\ fetched[t] = last.fetched
           /\ result[t] = last.result
           /\ semaphore = SemaphoreValue
\* Both calls fetched the payload and returned equal records.
C14_Witness ==
    \E t \in Tasks :
        /\ Done(t, "get_study_detail")
        /\ last # NoCall /\ last.op = "get_study_detail" /\ last.nct_id = nct_id[t]
        /\ Len(last.sent) = 1 /\ Len(sent[t]) = 1
        /\ IsRecord(last.result) /\ result[t] = last.result
        /\ result[t].nct_id = Str("NCT00000001")

\* C15: every page request of a search_studies call that was given a
\* start-date range (directly or through get_studies_by_date_range)
\* carries start_date_from and start_date_to among its filter parameters.
C15_DateRangeInEveryRequest ==
    \A t \in Tasks :
        (op[t] = "search_studies" /\ criteria[t].start_date_from # Null) =>
            \A i \in 1..Len(sent[t]) :
                /\ \E k \in DOMAIN sent[t][i].filters :
                        sent[t][i].filters[k] = criteria[t].start_date_from
                /\ \E k \in DOMAIN sent[t][i].filters :
                        sent[t][i].filters[k] = criteria[t].start_date_to

C17_NoSessionLeftOpen == (depth = 0) => (open_sessions = 0)

\* C20: in a search_studies call the first request carries no pageToken,
\* request N+1 carries the nextPageToken of response N, and a request is
\* issued only when every earlier one has been answered, so that at most
\* one request of the call is outstanding.
C20_PagesInTokenOrder ==
    \A t \in Tasks : op[t] = "search_studies" =>
        /\ Len(sent[t]) >= 1 => sent[t][1].pageToken = Absent
        /\ \A i \in 2..Len(sent[t]) :
              /\ OkPage(fetched[t][i - 1]) /\ HasToken(fetched[t][i - 1])
              /\ sent[t][i].pageToken = fetched[t][i - 1].body.f["nextPageToken"]
        /\ IF pc[t] = "inflight"
           THEN Len(sent[t]) = Len(fetched[t]) + 1
           ELSE Len(sent[t]) <= Len(fetched[t])
\* The second request of a call, carrying the token "t2" of the first
\* response, is outstanding.
C20_Witness ==
    \E t \in Tasks :
        /\ op[t] = "search_studies" /\ pc[t] = "inflight"
        /\ Len(sent[t]) = 2 /\ Len(fetched[t]) = 1
        /\ sent[t][1].pageToken = Absent
        /\ sent[t][2].pageToken = Str("t2")

C19_PermitsAccounted ==
    /\ semaphore + Cardinality(Outstanding) = SemaphoreValue
    /\ semaphore >= 0
    /\ (Outstanding = {}) => semaphore = SemaphoreValue
\* A search_studies call is between its first and its second page request
\* while other requests are in flight, and it holds no permit: the permits
\* in use are those of the requests in flight.
C19_Witness ==
    \E t \in Tasks :
        /\ op[t] = "search_studies" /\ pc[t] = "loop" /\ Len(fetched[t]) = 1
        /\ Cardinality(Outstanding) = 3
        /\ semaphore = SemaphoreValue - 3

\* The response r is a non-success response or a network failure.
Failed(r) == r.exc \/ r.status # HttpOk

\* C21: in a search_studies call a non-success response or a network
\* failure is the last outcome of the call: no request follows it, neither
\* for the same page nor for a later one, and the call has returned.
C21_NoRequestAfterFailure ==
    \A t \in Tasks : op[t] = "search_studies" =>
        \A i \in 1..Len(fetched[t]) : Failed(fetched[t][i]) =>
            /\ i = Len(fetched[t])
            /\ pc[t] = "done"
            /\ Len(sent[t]) <= i
\* The second page request of a call failed on the network and the call
\* has returned after two requests.
C21_Witness ==
    \E t \in Tasks :
        /\ Done(t, "search_studies") /\ Len(sent[t]) = 2 /\ Len(fetched[t]) = 2
        /\ fetched[t][2] = ExcResponse
        /\ Len(nct_ids[t]) < limit[t]

\* C22: with calls running concurrently on one scraper, what a call holds
\* and returns comes from the responses to its own requests: the
\* identifiers of a search are those of its own pages, each of its
\* requests carries the token of its own previous response, and a
\* finished call returns the value its own responses give, whatever
\* happened to the requests of the other calls.
C22_OwnResponsesOnly ==
    \A t \in Tasks :
        /\ op[t] \in {"search_studies", "get_updated_studies"} =>
             /\ nct_ids[t] = AllIds(fetched[t])
             /\ \A i \in 1..Len(sent[t]) :
                   sent[t][i].pageToken =
                      IF i = 1 THEN Absent ELSE fetched[t][i - 1].body.f["nextPageToken"]
             /\ pc[t] = "done" => result[t] = List(Take(AllIds(fetched[t]), limit[t]))
        /\ Done(t, "get_study_detail") =>
             /\ Len(fetched[t]) = 1
             /\ result[t] = IF IsSuccess(fetched[t][1]) THEN parse_study_data(fetched[t][1].body)
                            ELSE Null
\* The request of the search_studies call failed while the
\* get_updated_studies call and a get_study_detail call were running; the
\* get_updated_studies call has returned the identifiers of its two pages.
C22_Witness ==
    \E t, u, v \in Tasks :
        /\ Done(t, "search_studies") /\ Len(fetched[t]) = 1 /\ Failed(fetched[t][1])
        /\ result[t] = EmptyList
        /\ Done(u, "get_updated_studies") /\ Len(fetched[u]) = 2
        /\ result[u].t = "list" /\ Len(result[u].l) = 2
        /\ op[v] = "get_study_detail" /\ pc[v] = "inflight"

Searches == {"search_studies", "get_updated_studies"}

\* C26: the page requests of a search_studies or get_updated_studies call
\* are bounded by its limit: every response after which the call asks for
\* another page has brought it an identifier, so a call has always at
\* least as many identifiers as answered requests while it goes on.
C26_EveryPageBringsAnIdentifier ==
    \A t \in Tasks :
        (op[t] \in Searches /\ pc[t] = "loop" /\ SearchLoopTest(nct_ids[t], limit[t]))
            => Len(nct_ids[t]) >= Len(fetched[t])

C28_NoSessionNoRequest ==
    [][\A t \in Tasks :
        ( /\ session # "open" /\ pc[t] = "loop" /\ sent[t] = <<>>
          /\ pc'[t] # "loop" )
        => /\ pc'[t] = "done"
           /\ sent'[t] = <<>>
           /\ result'[t] = IF op[t] \in Searches THEN EmptyList ELSE Null
           /\ semaphore' = semaphore]_vars
\* A search for up to 3 identifiers on a closed session has returned the
\* empty list without a request.
C28_Witness ==
    \E t \in Tasks :
        /\ Done(t, "search_studies") /\ limit[t] = 3 /\ session = "closed"
        /\ sent[t] = <<>> /\ fetched[t] = <<ExcResponse>>
        /\ result[t] = EmptyList /\ semaphore = SemaphoreValue

\* C29: the identifiers a search_studies or get_updated_studies call
\* holds and returns are non-empty strings; an entry without nctId adds
\* nothing to the list, so it does not count toward limit, and after a
\* page with such entries and a token the call goes on unless it has limit
\* identifiers.
C29_IdentifiersNonEmpty ==
    \A t \in Tasks : op[t] \in Searches =>
        /\ \A i \in 1..Len(nct_ids[t]) : nct_ids[t][i].t = "str" /\ nct_ids[t][i].s # ""
        /\ pc[t] = "done" =>
             /\ result[t].t = "list"
             /\ \A i \in 1..Len(result[t].l) : result[t].l[i].t = "str" /\ result[t].l[i].s # ""
        /\ nct_ids[t] = AllIds(fetched[t])
        /\ ( /\ Len(fetched[t]) >= 1 /\ pc[t] # "inflight"
             /\ Succeeded(fetched[t][Len(fetched[t])]) /\ HasToken(fetched[t][Len(fetched[t])]) )
           => (pc[t] = "loop" \/ ~SearchLoopTest(nct_ids[t], limit[t]))
\* The first page had an entry without nctId and a token; the call went on
\* and has returned the identifiers of both pages, limit of them.
C29_Witness ==
    \E t \in Tasks :
        /\ Done(t, "search_studies") /\ Len(fetched[t]) = 2 /\ limit[t] = 2
        /\ Succeeded(fetched[t][1])
        /\ Len(Entries(fetched[t][1])) = 2 /\ Len(PageIds(fetched[t][1])) = 1
        /\ Len(PageIds(fetched[t][2])) >= 1
        /\ Len(result[t].l) = 2

\* C23: after a logout with the access token a login returned has answered
\* "logged out", the session that login created is expired: get_by_token
\* does not return it.
C23_LogoutExpiresSession ==
    \A r \in Requests :
        (calls[r].op = "logout" /\ calls[r].pc = "done" /\ calls[r].result = [message |-> "ok"])
        => \A a \in access_tokens :
               a.access_token = calls[r].args[1] => get_by_token(a.session_token) = Null

\* A request starts, in this step, the call o on the pair p.
Starts(r, o, p) ==
    /\ calls[r].pc = "done"
    /\ calls'[r] # calls[r]
    /\ calls'[r].op = o
    /\ calls'[r].args = p

\* C24: whatever add_favorite and remove_favorite calls two requests
\* interleave, no (user_id, study_id) pair has more than one favorite row;
\* an add_favorite called on a pair that has a row returns None and a
\* remove_favorite called on a pair that has none returns False, and both
\* leave the favorites as they are.
C24_OneFavoritePerPair ==
    /\ [](\A p \in Pairs : user_favorites[p] <= 1)
    /\ [][\A r \in Requests, p \in Pairs :
            /\ (Starts(r, "add_favorite", p) /\ user_favorites[p] > 0)
               => /\ calls'[r].pc = "done"
                  /\ calls'[r].result = Null
                  /\ user_favorites' = user_favorites
            /\ (Starts(r, "remove_favorite", p) /\ user_favorites[p] = 0)
               => /\ calls'[r].pc = "done"
                  /\ calls'[r].result = False
                  /\ user_favorites' = user_favorites]_vars
\* Two requests have added the same pair concurrently: both found no row,
\* one inserted it and the other's commit was refused; there is one row.
\* One of them has since asked again and been answered None.
C24_Witness ==
    /\ calls[1].op = "add_favorite" /\ calls[1].pc = "done"
    /\ calls[1].args = <<"u1", "s1">> /\ calls[1].result = Null
    /\ calls[2].op = "add_favorite" /\ calls[2].pc = "done"
    /\ calls[2].args = <<"u1", "s1">> /\ calls[2].result = Raised
    /\ user_favorites[<<"u1", "s1">>] = 1

\* The call a request ran last was o and it has returned.
Ran(r, o) == calls[r].op = o /\ calls[r].pc = "done"

\* C25: a remove of a known Study leaves the row in the table with
\* is_active False, and get returns it; the row stays so, and no
\* search_studies, for any query, filter and page, returns a study whose
\* is_active is False.  A remove of a known Condition (a model without
\* is_active) deletes the row.  A remove of an unknown id returns None and
\* changes no table.
C25_RemoveIsSoftDelete ==
    /\ [](\A r \in Requests :
            /\ (Ran(r, "remove") /\ calls[r].result # Null /\ calls[r].args[1] = "Study")
               => LET id == calls[r].args[2] IN
                  /\ id \in DOMAIN studies_table
                  /\ studies_table[id].is_active = FALSE
                  /\ get(studies_table, id) = studies_table[id]
                  /\ calls[r].result = studies_table[id]
            /\ (Ran(r, "remove") /\ calls[r].result # Null /\ calls[r].args[1] = "Condition")
               => /\ calls[r].args[2] \notin DOMAIN conditions
                  /\ get(conditions, calls[r].args[2]) = Null
            /\ Ran(r, "search_studies")
               => \A id \in DOMAIN studies_table :
                      studies_table[id].is_active = FALSE
                      => \A i \in 1..Len(calls[r].result.studies) :
                             calls[r].result.studies[i].id # id)
    /\ [][/\ \A id \in DOMAIN studies_table :
                 studies_table[id].is_active = FALSE
                 => id \in DOMAIN studies_table' /\ studies_table'[id].is_active = FALSE
          /\ \A r \in Requests, m \in Models, id \in {"s1", "c1", "x9"} :
                 ( /\ calls[r].pc = "done" /\ calls'[r] # calls[r]
                   /\ calls'[r].op = "remove" /\ calls'[r].args = <<m, id>>
                   /\ id \notin DOMAIN TableOf(m) )
                 => /\ calls'[r].result = Null
                    /\ UNCHANGED <<users, studies_table, conditions>>]_vars
\* Study s1 and condition c1 have been removed: s1 is still in its table,
\* c1 is not; a search for everything then found two studies.
C25_Witness ==
    /\ "s1" \in DOMAIN studies_table /\ studies_table["s1"].is_active = FALSE
    /\ "c1" \notin DOMAIN conditions
    /\ Ran(1, "search_studies")
    /\ calls[1].args = <<<<>>, [phase |-> {}], 1, 2>>
    /\ calls[1].result.total = 2
    /\ Len(calls[1].result.studies) = 2

\* Credentials that name a user: a JWT signed with the key of the backend
\* and not expired, whose subject is an active user of the table.
ValidCredentials(c) ==
    /\ c # Absent
    /\ c.t = "jwt"
    /\ c.key = JWT_SECRET_KEY
    /\ c.exp >= now
    /\ c.sub \in DOMAIN users
    /\ users[c.sub].is_active

\* A request to one of the state-changing user endpoints, sent with these
\* credentials, is handled in this step.
UserRequest(r, c) ==
    \/ update_current_user(r, c, [full_name |-> "new"])
    \/ \E pw \in Passwords : change_password(r, c, InitialPassword, pw)
    \/ \E s \in {"s1", "s9"} : users_add_favorite(r, c, s)
    \/ users_remove_favorite(r, c, "s1")
    \/ clear_history(r, c)
    \/ \E f \in FeedbackInputs : create_feedback(r, c, f)

UserData == <<users, user_favorites, user_history, user_feedback>>

\* C30: a request to update_current_user, change_password, add_favorite,
\* remove_favorite, clear_history or create_feedback sent without valid
\* credentials (none, no JWT, a wrong signature, an expired token, an
\* unknown or inactive user) leaves the users (profiles and password
\* hashes), favorites, history and feedback as they were: no step that
\* changes any of them is the handling of such a request.
C30_UnauthenticatedChangesNothing ==
    [][(UserData' # UserData)
       => \A r \in Requests, c \in Credentials :
              ~ValidCredentials(c) => ~UserRequest(r, c)]_vars
\* User u1 has a history row and a token from a login, and was then
\* deactivated; a clear_history sent with that token was answered 500 and
\* the history row is still there.
C30_Witness ==
    /\ Ran(1, "clear_history") /\ calls[1].result = ErrorResponse(500)
    /\ users["u1"].is_active = FALSE
    /\ \E a \in access_tokens : a.access_token.sub = "u1" /\ a.access_token.exp >= now
    /\ user_history[<<"u1", "s1">>] = 1

====
